---- MODULE Spec2Model ----
(***************************************************************************)
(* A model of the coordinate utilities of upoints / earth_distance:        *)
(* the Maidenhead locator codec (utils.to_grid_locator and                 *)
(* utils.from_grid_locator), the degree <-> degree/minute/second           *)
(* conversions (utils.to_dms and utils.to_dd) and the Baken object whose   *)
(* locator property re-derives its position (baken.Baken).                 *)
(*                                                                         *)
(* Angles are exact fixed-point numbers.  In the locator codec and in the  *)
(* Baken object one unit is 1/UnitsPerDegree of a degree, so that every    *)
(* Maidenhead span, and half of the smallest one, is a whole number of     *)
(* units.  Strings are sequences of character codes, so that ord(), chr(), *)
(* int(), str() and lower() are modelled by what they do to the codes.     *)
(*                                                                         *)
(* Further sections model the ISO 6709 codec (utils.to_iso6709 and         *)
(* utils.from_iso6709), the last steps of utils.sun_rise_set and           *)
(* utils.sun_events, the unit systems of utils.angle_to_distance and       *)
(* utils.distance_to_angle, the constructors of Point and Cell, the        *)
(* pairwise and the element-wise operations of Points and KeyedPoints, the *)
(* compass name of a bearing, and the importers Bakens.import_baken_file   *)
(* and Cells.import_locations.  Each section has its own session, a        *)
(* specification that leaves the variables of the other sessions as they   *)
(* are constructed.                                                        *)
(***************************************************************************)
EXTENDS Integers, Sequences, FiniteSets, TLC

VARIABLES
    pc,          \* what the session under study did last
    latitude,    \* latitude argument of the last to_grid_locator call
    longitude,   \* longitude argument of the last to_grid_locator call
    precision,   \* precision argument of the last to_grid_locator call
    locator,     \* outcome of the last to_grid_locator call
    text,        \* string argument of the last from_grid_locator call
    position,    \* outcome of the last from_grid_locator call
    baken,       \* the Baken object, once one is constructed
    raised,      \* the exception the last Baken operation raised, or "none"
    bakenCall,   \* arguments of the last Baken constructor call
    angle,       \* angle argument of the last to_dms call
    style,       \* style argument of the last to_dms call
    dms,         \* outcome of the last to_dms call; argument of to_dd
    dd,          \* outcome of the last to_dd call
    isoCall,     \* arguments of the last to_iso6709 call
    isoText,     \* outcome of the last to_iso6709 call
    isoInput,    \* string argument of the last from_iso6709 call
    isoParsed,   \* outcome of the last from_iso6709 call
    sunCall,     \* arguments of the last sun_rise_set call and its ephemeris
    sunBase,     \* outcome of sun_rise_set with the default timezone of 0
    sunShifted,  \* outcome of sun_rise_set with the timezone of sunCall
    sunEvents,   \* arguments, ephemerides and outcome of the last sun_events call
    unitsCall,   \* number and unit system of the last distance conversion
    distanceOut, \* outcome of the last angle_to_distance call
    angleOut,    \* outcome of the last distance_to_angle call
    newCall,     \* arguments of the last Point or Cell constructor call
    built,       \* the object that call constructed, if it constructed one
    newRaised,   \* the exception that call raised, or "none"
    locs,        \* the collection of points under study
    pairCall,    \* the last pairwise operation and its key order
    pairOut,     \* the results of the last pairwise operation
    eachCall,    \* the last element-wise operation and its argument
    eachOut,     \* the results of the last element-wise operation
    walked,      \* the members the last traversal of the collection met
    bearingCall, \* bearing and format of the last Point.bearing call
    bearingOut,  \* outcome of the last Point.bearing call
    bakenFile,   \* the sections of the file last handed to import_baken_file
    bakens,      \* the Bakens collection and the outcome of that import
    cellsFile,   \* the rows of the file last handed to Cells.import_locations
    cells        \* the Cells collection and the outcome of that import

locVars == <<latitude, longitude, precision, locator, text, position>>
bakenVars == <<baken, raised, bakenCall>>
dmsVars == <<angle, style, dms, dd>>
isoVars == <<isoCall, isoText, isoInput, isoParsed>>
sunVars == <<sunCall, sunBase, sunShifted, sunEvents>>
unitsVars == <<unitsCall, distanceOut, angleOut>>
newVars == <<newCall, built, newRaised>>
locsVars == <<locs, pairCall, pairOut, eachCall, eachOut, walked>>
bearVars == <<bearingCall, bearingOut>>
fileVars == <<bakenFile, bakens>>
cellsVars == <<cellsFile, cells>>
restVars == <<isoVars, sunVars, unitsVars, newVars, locsVars, bearVars, fileVars, cellsVars>>
\* What a session leaves alone: everything that is not its own
notIsoVars ==
    <<locVars, bakenVars, dmsVars, sunVars, unitsVars, newVars, locsVars, bearVars, fileVars, cellsVars>>
notSunVars ==
    <<locVars, bakenVars, dmsVars, isoVars, unitsVars, newVars, locsVars, bearVars, fileVars, cellsVars>>
notUnitsVars ==
    <<locVars, bakenVars, dmsVars, isoVars, sunVars, newVars, locsVars, bearVars, fileVars, cellsVars>>
notNewVars ==
    <<locVars, bakenVars, dmsVars, isoVars, sunVars, unitsVars, locsVars, bearVars, fileVars, cellsVars>>
notLocsVars ==
    <<locVars, bakenVars, dmsVars, isoVars, sunVars, unitsVars, newVars, bearVars, fileVars, cellsVars>>
notBearVars ==
    <<locVars, bakenVars, dmsVars, isoVars, sunVars, unitsVars, newVars, locsVars, fileVars, cellsVars>>
notFileVars ==
    <<locVars, bakenVars, dmsVars, isoVars, sunVars, unitsVars, newVars, locsVars, bearVars, cellsVars>>
notCellsVars ==
    <<locVars, bakenVars, dmsVars, isoVars, sunVars, unitsVars, newVars, locsVars, bearVars, fileVars>>
vars == <<pc, locVars, bakenVars, dmsVars, restVars>>

----------------------------------------------------------------------------
(* Characters and strings *)

\* The printable ASCII characters, code 32 first (code 96, the grave accent,
\* is held by a placeholder: it cannot be written in a string here).
AsciiPrintable ==
    << " ", "!", "\"", "#", "$", "%", "&", "'", "(", ")", "*", "+", ",", "-",
       ".", "/", "0", "1", "2", "3", "4", "5", "6", "7", "8", "9", ":", ";",
       "<", "=", ">", "?", "@", "A", "B", "C", "D", "E", "F", "G", "H", "I",
       "J", "K", "L", "M", "N", "O", "P", "Q", "R", "S", "T", "U", "V", "W",
       "X", "Y", "Z", "[", "\\", "]", "^", "_", "grave", "a", "b", "c", "d", "e",
       "f", "g", "h", "i", "j", "k", "l", "m", "n", "o", "p", "q", "r", "s",
       "t", "u", "v", "w", "x", "y", "z", "{", "|", "}", "~" >>

\* ord() of a one-character string
ord(c) == 31 + CHOOSE i \in 1..Len(AsciiPrintable) : AsciiPrintable[i] = c

\* chr() of a code: characters are kept as their codes
chr(n) == n

\* A string literal, written as a tuple of one-character strings
Str(chars) == [i \in 1..Len(chars) |-> ord(chars[i])]

IsDigit(c) == 48 <= c /\ c <= 57

\* str.lower() of one character
lower(c) == IF 65 <= c /\ c <= 90 THEN c + 32 ELSE c

\* str() of a non-negative integer
RECURSIVE str(_)
str(n) == IF n < 10 THEN <<48 + n>> ELSE str(n \div 10) \o <<48 + (n % 10)>>

\* int() of the quotient of two fixed-point numbers: truncation towards zero
PyInt(a, b) == IF a >= 0 THEN a \div b ELSE -((-a) \div b)

Abs(x) == IF x < 0 THEN -x ELSE x

----------------------------------------------------------------------------
(* Maidenhead locator constants *)

\* Fixed-point units in one degree: 1/240 degree is LATITUDE_EXTSQUARE, which
\* is halved, and the decimal inputs are given to 1/1000 degree.
UnitsPerDegree == 240 * 50

Deg(whole, thousandths) == whole * UnitsPerDegree + (thousandths * UnitsPerDegree) \div 1000

LONGITUDE_FIELD == 20 * UnitsPerDegree
LATITUDE_FIELD == 10 * UnitsPerDegree
LONGITUDE_SQUARE == LONGITUDE_FIELD \div 10
LATITUDE_SQUARE == LATITUDE_FIELD \div 10
LONGITUDE_SUBSQUARE == LONGITUDE_SQUARE \div 24
LATITUDE_SUBSQUARE == LATITUDE_SQUARE \div 24
LONGITUDE_EXTSQUARE == LONGITUDE_SUBSQUARE \div 10
LATITUDE_EXTSQUARE == LATITUDE_SUBSQUARE \div 10

\* A precision check that lets the field level through
PrecisionsWithField == {"square", "subsquare", "extsquare", "field"}

Precisions == {"square", "subsquare", "extsquare"}

----------------------------------------------------------------------------
(* Outcomes of a call: a returned value or a raised exception *)

NoLocator == [exc |-> "unset", msg |-> "", value |-> <<>>]
LocatorReturned(v) == [exc |-> "none", msg |-> "", value |-> v]
LocatorRaised(kind, message) == [exc |-> kind, msg |-> message, value |-> <<>>]

\* shown: what the message of the exception interpolates
NoPosition ==
    [exc |-> "unset", msg |-> "", shown |-> <<>>, latitude |-> 0, longitude |-> 0]
PositionReturned(lat, lon) ==
    [exc |-> "none", msg |-> "", shown |-> <<>>, latitude |-> lat, longitude |-> lon]
PositionRaised(kind, message, what) ==
    [exc |-> kind, msg |-> message, shown |-> what, latitude |-> 0, longitude |-> 0]

----------------------------------------------------------------------------
(* utils.to_grid_locator *)

\* int(longitude / LONGITUDE_FIELD) and its like at every level
CellIndex(remainder, span) == PyInt(remainder, span)

\* A remainder that is not carried: the index is taken of the whole again
CarryNothing(remainder, index, span) == remainder

\* longitude -= field * LONGITUDE_FIELD and its like at every level
CarryRemainder(remainder, index, span) == remainder - index * span

\* The two characters of one level: the longitude's, then the latitude's
LevelChars(lonChar, latChar) == lonChar \o latChar

to_grid_locator(lat, lon, prec) ==
    IF prec \notin Precisions
    THEN LocatorRaised("ValueError", "Unsupported precision value")
    ELSE IF ~(-90 * UnitsPerDegree <= lat /\ lat <= 90 * UnitsPerDegree)
    THEN LocatorRaised("ValueError", "Invalid latitude value")
    ELSE IF ~(-180 * UnitsPerDegree <= lon /\ lon <= 180 * UnitsPerDegree)
    THEN LocatorRaised("ValueError", "Invalid longitude value")
    ELSE
    LET lat0 == lat + 90 * UnitsPerDegree
        lon0 == lon + 180 * UnitsPerDegree
        lonField == CellIndex(lon0, LONGITUDE_FIELD)
        lon1 == CarryRemainder(lon0, lonField, LONGITUDE_FIELD)
        latField == CellIndex(lat0, LATITUDE_FIELD)
        lat1 == CarryRemainder(lat0, latField, LATITUDE_FIELD)
        lonSquare == CellIndex(lon1, LONGITUDE_SQUARE)
        lon2 == CarryRemainder(lon1, lonSquare, LONGITUDE_SQUARE)
        latSquare == CellIndex(lat1, LATITUDE_SQUARE)
        lat2 == CarryRemainder(lat1, latSquare, LATITUDE_SQUARE)
        lonSub == CellIndex(lon2, LONGITUDE_SUBSQUARE)
        lon3 == CarryRemainder(lon2, lonSub, LONGITUDE_SUBSQUARE)
        latSub == CellIndex(lat2, LATITUDE_SUBSQUARE)
        lat3 == CarryRemainder(lat2, latSub, LATITUDE_SUBSQUARE)
        lonExt == CellIndex(lon3, LONGITUDE_EXTSQUARE)
        latExt == CellIndex(lat3, LATITUDE_EXTSQUARE)
    IN  LocatorReturned(
            LevelChars(<<chr(lonField + 65)>>, <<chr(latField + 65)>>)
            \o LevelChars(str(lonSquare), str(latSquare))
            \o (IF prec \in {"subsquare", "extsquare"}
                THEN LevelChars(<<chr(lonSub + 97)>>, <<chr(latSub + 97)>>)
                ELSE <<>>)
            \o (IF prec = "extsquare"
                THEN LevelChars(str(lonExt), str(latExt))
                ELSE <<>>))

----------------------------------------------------------------------------
(* utils.from_grid_locator.  Python's locator[i] is loc[i + 1] here. *)

\* The positions converted with int(), in the order the code converts them
IntPositions(loc) ==
    {i \in {3, 4} : i <= Len(loc)} \cup {i \in {7, 8} : Len(loc) = 8}

\* The positions at which int() raises
BadIntPositions(loc) == {i \in IntPositions(loc) : ~IsDigit(loc[i])}

Min(S) == CHOOSE x \in S : \A y \in S : x <= y

\* The subsquare letters are lowered before they are converted
SubsquareCode(c) == lower(c) - 97

\* The characters converted to numbers (every int() having succeeded)
Munge(loc) ==
    [i \in 1..Len(loc) |->
        IF i <= 2 THEN loc[i] - 65
        ELSE IF i <= 4 THEN loc[i] - 48
        ELSE IF i <= 6 THEN SubsquareCode(loc[i])
        ELSE loc[i] - 48]

FieldSquareOk(m) ==
    /\ 0 <= m[1] /\ m[1] <= 17
    /\ 0 <= m[2] /\ m[2] <= 17
    /\ 0 <= m[3] /\ m[3] <= 9
    /\ 0 <= m[4] /\ m[4] <= 9

\* The subsquare letters left unchecked
SubsquareUnchecked(m) == TRUE

SubsquareOk(m) ==
    Len(m) >= 6 => /\ 0 <= m[5] /\ m[5] <= 23
                   /\ 0 <= m[6] /\ m[6] <= 23

ExtsquareOk(m) ==
    Len(m) = 8 => /\ 0 <= m[7] /\ m[7] <= 9
                  /\ 0 <= m[8] /\ m[8] <= 9

\* The offset added for the levels the locator does not resolve
UnresolvedLongitude == LONGITUDE_EXTSQUARE * 5
\* An offset of half a square, whatever the locator resolves
UnresolvedLatitudeOfSquare == LATITUDE_SQUARE \div 2

UnresolvedLatitude == LATITUDE_EXTSQUARE * 5

LocatorLongitude(m) ==
    LONGITUDE_FIELD * m[1] + LONGITUDE_SQUARE * m[3]
    + (IF Len(m) >= 6 THEN LONGITUDE_SUBSQUARE * m[5] ELSE 0)
    + (IF Len(m) = 8
       THEN LONGITUDE_EXTSQUARE * m[7] + LONGITUDE_EXTSQUARE \div 2
       ELSE UnresolvedLongitude)
    - 180 * UnitsPerDegree

LocatorLatitude(m) ==
    LATITUDE_FIELD * m[2] + LATITUDE_SQUARE * m[4]
    + (IF Len(m) >= 6 THEN LATITUDE_SUBSQUARE * m[6] ELSE 0)
    + (IF Len(m) = 8
       THEN LATITUDE_EXTSQUARE * m[8] + LATITUDE_EXTSQUARE \div 2
       ELSE UnresolvedLatitude)
    - 90 * UnitsPerDegree

from_grid_locator(loc) ==
    IF Len(loc) \notin {4, 6, 8}
    THEN PositionRaised("ValueError", "Locator must be 4, 6 or 8 characters long", loc)
    ELSE IF BadIntPositions(loc) # {}
    THEN PositionRaised("ValueError", "invalid literal for int()",
                        <<loc[Min(BadIntPositions(loc))]>>)
    ELSE
    LET m == Munge(loc)
    IN  IF ~FieldSquareOk(m) \/ ~SubsquareOk(m) \/ ~ExtsquareOk(m)
        THEN PositionRaised("ValueError", "Invalid values in locator", m)
        ELSE PositionReturned(LocatorLatitude(m), LocatorLongitude(m))

----------------------------------------------------------------------------
(* The locator session: one call of to_grid_locator whose result, when it  *)
(* returns one, is handed to from_grid_locator; or one call of             *)
(* from_grid_locator on a string of the caller's.                          *)

\* Number of steps of the grid of sampled coordinates
NSamples == 13

\* Longest string handed to from_grid_locator
MaxLocatorLen == 9

GridPoints(lowest, width) == {lowest + (width * k) \div NSamples : k \in 0..NSamples}

\* Sampled latitudes: a grid over [-90, 90] with both ends, the documented
\* examples, the neighbours of the ends, the equator and values out of range
LatitudeInputs ==
    GridPoints(-90 * UnitsPerDegree, 180 * UnitsPerDegree)
    \cup {Deg(21, 319), Deg(52, 21), Deg(52, 15), 0, -1, -Deg(33, 940)}
    \cup {90 * UnitsPerDegree - 1, -90 * UnitsPerDegree + 1}
    \cup {90 * UnitsPerDegree + 1, -92 * UnitsPerDegree}

LongitudeInputs ==
    GridPoints(-180 * UnitsPerDegree, 360 * UnitsPerDegree)
    \cup {-Deg(157, 904), -Deg(0, 208), -Deg(0, 221), -Deg(1, 958), 0, Deg(8, 458)}
    \cup {180 * UnitsPerDegree - 1, -180 * UnitsPerDegree + 1}
    \cup {185 * UnitsPerDegree, -180 * UnitsPerDegree - 1}

PrecisionInputs == Precisions \cup {"field"}

\* Valid eight-character locators from which the sampled strings are made
BaseLocators ==
    { Str(<<"B", "L", "1", "1", "b", "h", "1", "6">>),
      Str(<<"I", "O", "9", "2", "v", "a", "3", "3">>),
      Str(<<"A", "A", "0", "0", "a", "a", "0", "0">>),
      Str(<<"R", "R", "9", "9", "x", "x", "9", "9">>),
      Str(<<"J", "N", "4", "4", "F", "H", "5", "5">>) }

\* Characters on both sides of the edge of every character class
EdgeChars ==
    { ord(c) : c \in {"/", "0", "9", ":", "@", "A", "R", "S", "X", "Y", "a",
                      "r", "x", "y", "_", " ", "-"} }

Padding == [i \in 1..(MaxLocatorLen - 8) |-> ord("0")]

\* base with character i replaced by c, cut to n characters
Variant(base, i, c, n) ==
    SubSeq([base EXCEPT ![i] = c] \o Padding, 1, n)

LocatorInputs ==
    { Variant(base, i, c, n) :
        base \in BaseLocators, i \in 1..8, c \in EdgeChars, n \in 0..MaxLocatorLen }
    \cup { SubSeq(base, 1, n) : base \in BaseLocators, n \in 0..8 }

LocInit ==
    /\ latitude = 0
    /\ longitude = 0
    /\ precision = "square"
    /\ locator = NoLocator
    /\ text = <<>>
    /\ position = NoPosition

BakenIdle ==
    /\ baken = [exists |-> FALSE, _latitude |-> 0, _longitude |-> 0,
                _rad_latitude |-> 0, _rad_longitude |-> 0,
                _locator |-> [none |-> TRUE, s |-> <<>>]]
    /\ raised = "none"
    /\ bakenCall = [latitude |-> [none |-> TRUE, v |-> 0],
                    longitude |-> [none |-> TRUE, v |-> 0],
                    locator |-> [none |-> TRUE, s |-> <<>>]]

DmsIdle ==
    /\ angle = 0
    /\ style = "dms"
    /\ dms = [exc |-> "unset", value |-> <<>>]
    /\ dd = 0

IsoIdle ==
    /\ isoCall = [latitude |-> 0, longitude |-> 0,
                  altitude |-> [none |-> TRUE, v |-> 0],
                  format |-> "dd", precision |-> 0]
    /\ isoText = [exc |-> "unset", value |-> <<>>]
    /\ isoInput = <<>>
    /\ isoParsed = [exc |-> "unset", msg |-> "", shown |-> <<>>,
                    latitude |-> 0, longitude |-> 0,
                    altitude |-> [none |-> TRUE, v |-> 0]]

SunIdle ==
    /\ sunCall = [zenith |-> "None", mode |-> "rise", timezone |-> 0, cosH |-> 0, UT |-> 0]
    /\ sunBase = [exc |-> "unset", none |-> FALSE, hour |-> 0, minute |-> 0]
    /\ sunShifted = [exc |-> "unset", none |-> FALSE, hour |-> 0, minute |-> 0]
    /\ sunEvents = [zenith |-> "None", timezone |-> 0,
                    rise |-> [cosH |-> 0, UT |-> 0], set |-> [cosH |-> 0, UT |-> 0],
                    exc |-> "unset",
                    value |-> << [exc |-> "unset", none |-> FALSE, hour |-> 0, minute |-> 0],
                                 [exc |-> "unset", none |-> FALSE, hour |-> 0, minute |-> 0] >>]

UnitsIdle ==
    /\ unitsCall = [x |-> [n |-> 0, d |-> 1], format |-> "metric"]
    /\ distanceOut = [exc |-> "unset", value |-> [n |-> 0, d |-> 1]]
    /\ angleOut = [exc |-> "unset", value |-> [n |-> 0, d |-> 1]]

NewIdle ==
    /\ newCall = [class |-> "none",
                  latitude |-> [kind |-> "number", v |-> 0, t |-> <<>>],
                  longitude |-> [kind |-> "number", v |-> 0, t |-> <<>>],
                  units |-> "metric", angle |-> "degrees", ident |-> 0]
    /\ built = [exists |-> FALSE, class |-> "none", _latitude |-> 0, _longitude |-> 0,
                _rad_latitude |-> 0, _rad_longitude |-> 0, units |-> "metric",
                _angle |-> "degrees", timezone |-> 0, ident |-> 0]
    /\ newRaised = "none"

LocsIdle ==
    /\ locs = [class |-> "none", members |-> <<>>]
    /\ pairCall = [op |-> "none", order |-> <<>>]
    /\ pairOut = <<>>
    /\ eachCall = [op |-> "none", arg |-> "none"]
    /\ eachOut = <<>>
    /\ walked = <<>>

BearIdle ==
    /\ bearingCall = [bearing |-> 0, format |-> "numeric"]
    /\ bearingOut = [exc |-> "unset", name |-> "", value |-> 0]

FileIdle ==
    /\ bakenFile = <<>>
    /\ bakens = [exc |-> "unset", entries |-> {}]

CellsIdle ==
    /\ cellsFile = <<>>
    /\ cells = [exc |-> "unset", entries |-> {}]

\* The sessions that are not under study stay as they are constructed
RestIdle ==
    /\ IsoIdle /\ SunIdle /\ UnitsIdle /\ NewIdle /\ LocsIdle
    /\ BearIdle /\ FileIdle /\ CellsIdle

InitLocator == pc = "start" /\ LocInit /\ BakenIdle /\ DmsIdle /\ RestIdle

\* A caller calls to_grid_locator
ToGridLocator ==
    /\ pc = "start"
    /\ \E lat \in LatitudeInputs, lon \in LongitudeInputs, prec \in PrecisionInputs :
        /\ latitude' = lat
        /\ longitude' = lon
        /\ precision' = prec
        /\ locator' = to_grid_locator(lat, lon, prec)
    /\ pc' = "encoded"
    /\ UNCHANGED <<text, position, bakenVars, dmsVars, restVars>>

\* The caller hands the locator it got to from_grid_locator
DecodeLocator ==
    /\ pc = "encoded"
    /\ locator.exc = "none"
    /\ text' = locator.value
    /\ position' = from_grid_locator(locator.value)
    /\ pc' = "decoded"
    /\ UNCHANGED <<latitude, longitude, precision, locator, bakenVars, dmsVars, restVars>>

\* A caller calls from_grid_locator on a string of its own
FromGridLocator ==
    /\ pc = "start"
    /\ \E s \in LocatorInputs :
        /\ text' = s
        /\ position' = from_grid_locator(s)
    /\ pc' = "parsed"
    /\ UNCHANGED <<latitude, longitude, precision, locator, bakenVars, dmsVars, restVars>>

\* The precision that names a cell with a locator of n characters
PrecisionOfLength(n) ==
    IF n = 4 THEN "square" ELSE IF n = 6 THEN "subsquare" ELSE "extsquare"

\* The caller hands the position it got to to_grid_locator, at the
\* precision of the string it parsed
EncodePosition ==
    /\ pc = "parsed"
    /\ position.exc = "none"
    /\ latitude' = position.latitude
    /\ longitude' = position.longitude
    /\ precision' = PrecisionOfLength(Len(text))
    /\ locator' = to_grid_locator(position.latitude, position.longitude,
                                  PrecisionOfLength(Len(text)))
    /\ pc' = "reencoded"
    /\ UNCHANGED <<text, position, bakenVars, dmsVars, restVars>>

NextLocator == ToGridLocator \/ DecodeLocator \/ FromGridLocator \/ EncodePosition

SpecLocator == InitLocator /\ [][NextLocator]_vars

----------------------------------------------------------------------------
(* What the locator claims speak of, stated apart from the code *)

InRange(lat, lon) ==
    /\ -90 * UnitsPerDegree <= lat /\ lat <= 90 * UnitsPerDegree
    /\ -180 * UnitsPerDegree <= lon /\ lon <= 180 * UnitsPerDegree

ValidCall == InRange(latitude, longitude) /\ precision \in Precisions

\* Length of the locator of a precision
LocatorLen(prec) ==
    CASE prec = "square" -> 4 [] prec = "subsquare" -> 6 [] OTHER -> 8

\* Width (longitude) and height (latitude) of the cell an n-character locator names
CellWidth(n) ==
    CASE n = 4 -> 2 * UnitsPerDegree
      [] n = 6 -> (2 * UnitsPerDegree) \div 24
      [] OTHER -> (2 * UnitsPerDegree) \div 240
CellHeight(n) ==
    CASE n = 4 -> UnitsPerDegree
      [] n = 6 -> UnitsPerDegree \div 24
      [] OTHER -> UnitsPerDegree \div 240

InClass(c, first, last) == ord(first) <= c /\ c <= ord(last)

\* The character classes of the specification
IsValidLocator(s) ==
    /\ Len(s) \in {4, 6, 8}
    /\ InClass(s[1], "A", "R") /\ InClass(s[2], "A", "R")
    /\ InClass(s[3], "0", "9") /\ InClass(s[4], "0", "9")
    /\ Len(s) >= 6 => InClass(s[5], "a", "x") /\ InClass(s[6], "a", "x")
    /\ Len(s) = 8 => InClass(s[7], "0", "9") /\ InClass(s[8], "0", "9")

\* The same with the subsquare letters in either case
IsAcceptedLocator(s) ==
    /\ Len(s) \in {4, 6, 8}
    /\ InClass(s[1], "A", "R") /\ InClass(s[2], "A", "R")
    /\ InClass(s[3], "0", "9") /\ InClass(s[4], "0", "9")
    /\ Len(s) >= 6 => /\ InClass(s[5], "a", "x") \/ InClass(s[5], "A", "X")
                      /\ InClass(s[6], "a", "x") \/ InClass(s[6], "A", "X")
    /\ Len(s) = 8 => InClass(s[7], "0", "9") /\ InClass(s[8], "0", "9")

\* West and south edge of the cell a valid locator names
CellWest(s) ==
    (s[1] - ord("A")) * 20 * UnitsPerDegree + (s[3] - ord("0")) * 2 * UnitsPerDegree
    + (IF Len(s) >= 6 THEN (s[5] - ord("a")) * CellWidth(6) ELSE 0)
    + (IF Len(s) = 8 THEN (s[7] - ord("0")) * CellWidth(8) ELSE 0)
    - 180 * UnitsPerDegree
CellSouth(s) ==
    (s[2] - ord("A")) * 10 * UnitsPerDegree + (s[4] - ord("0")) * UnitsPerDegree
    + (IF Len(s) >= 6 THEN (s[6] - ord("a")) * CellHeight(6) ELSE 0)
    + (IF Len(s) = 8 THEN (s[8] - ord("0")) * CellHeight(8) ELSE 0)
    - 90 * UnitsPerDegree

\* Index, within the cell of the level above (parent units wide), of the cell
\* (span units wide) that contains the shifted coordinate x
IndexInParent(x, span, parent) == x \div span - (x \div parent) * (parent \div span)

\* The locator of a point, level by level, from the cells that contain it
ExpectedLocator(lat, lon, prec) ==
    LET x == lon + 180 * UnitsPerDegree
        y == lat + 90 * UnitsPerDegree
    IN  <<65 + x \div (20 * UnitsPerDegree), 65 + y \div (10 * UnitsPerDegree),
          48 + IndexInParent(x, CellWidth(4), 20 * UnitsPerDegree),
          48 + IndexInParent(y, CellHeight(4), 10 * UnitsPerDegree)>>
        \o (IF prec \in {"subsquare", "extsquare"}
            THEN <<97 + IndexInParent(x, CellWidth(6), CellWidth(4)),
                   97 + IndexInParent(y, CellHeight(6), CellHeight(4))>>
            ELSE <<>>)
        \o (IF prec = "extsquare"
            THEN <<48 + IndexInParent(x, CellWidth(8), CellWidth(6)),
                   48 + IndexInParent(y, CellHeight(8), CellHeight(6))>>
            ELSE <<>>)

----------------------------------------------------------------------------
(* Claims about the locator codec *)

\* C1 (as claimed): for every latitude in [-90, 90], longitude in [-180, 180]
\* and precision, from_grid_locator(to_grid_locator(lat, lon, precision))
\* returns a point whose latitude and longitude are each within half a
\* cell-width, at that precision, of the original.
C1_RoundTripWithinHalfCell ==
    (pc = "decoded" /\ ValidCall) =>
        /\ position.exc = "none"
        /\ 2 * Abs(position.latitude - latitude) <= CellHeight(LocatorLen(precision))
        /\ 2 * Abs(position.longitude - longitude) <= CellWidth(LocatorLen(precision))

\* C2 (as claimed): for every valid locator of length 4, 6 or 8,
\* from_grid_locator returns the centre of the smallest cell the locator
\* resolves: of the square for 4 characters, the subsquare for 6, the
\* extsquare for 8.
C2_DecodesToCellCentre ==
    (pc \in {"parsed", "decoded"} /\ IsValidLocator(text)) =>
        /\ position.exc = "none"
        /\ 2 * position.latitude = 2 * CellSouth(text) + CellHeight(Len(text))
        /\ 2 * position.longitude = 2 * CellWest(text) + CellWidth(Len(text))

\* C3 (as claimed): for every latitude in [-90, 90] and longitude in
\* [-180, 180], both bounds included, to_grid_locator returns a string of
\* length 4, 6 or 8 for square, subsquare or extsquare whose characters lie
\* in the locator character classes, so that from_grid_locator accepts it.
C3_EncodesValidLocator ==
    (pc = "encoded" /\ ValidCall) =>
        /\ locator.exc = "none"
        /\ Len(locator.value) = LocatorLen(precision)
        /\ IsValidLocator(locator.value)
        /\ from_grid_locator(locator.value).exc = "none"

\* C4: to_grid_locator emits, level by level and longitude before latitude,
\* the index of the cell that contains the shifted point, counted within the
\* cell of the level above; (21.319, -157.904, extsquare) gives BL11bh16,
\* (52.021, -0.208, subsquare) gives IO92va and (52.015, -0.221, extsquare)
\* gives IO92va33.
C4_EmitsCellIndexPerLevel ==
    (pc = "encoded" /\ ValidCall) =>
        /\ locator.exc = "none"
        /\ locator.value = ExpectedLocator(latitude, longitude, precision)
        /\ (latitude = Deg(21, 319) /\ longitude = -Deg(157, 904) /\ precision = "extsquare")
            => locator.value = Str(<<"B", "L", "1", "1", "b", "h", "1", "6">>)
        /\ (latitude = Deg(52, 21) /\ longitude = -Deg(0, 208) /\ precision = "subsquare")
            => locator.value = Str(<<"I", "O", "9", "2", "v", "a">>)
        /\ (latitude = Deg(52, 15) /\ longitude = -Deg(0, 221) /\ precision = "extsquare")
            => locator.value = Str(<<"I", "O", "9", "2", "v", "a", "3", "3">>)

\* C4 witness: the documented call (21.319, -157.904, extsquare) returned BL11bh16
C4_Witness ==
    /\ pc = "encoded"
    /\ latitude = Deg(21, 319) /\ longitude = -Deg(157, 904) /\ precision = "extsquare"
    /\ locator.exc = "none"
    /\ locator.value = Str(<<"B", "L", "1", "1", "b", "h", "1", "6">>)

\* C5 (as claimed): from_grid_locator fails with a ValueError naming the
\* offending locator for every string whose length is not 4, 6 or 8 and for
\* every string of valid length with a character outside its position's class
\* (A-R, digits, a-x, digits), and returns a position only for strings that
\* satisfy all of these.
C5_RejectsAllButValidLocators ==
    pc = "parsed" =>
        /\ position.exc = "none" <=> IsValidLocator(text)
        /\ position.exc # "none" => (position.exc = "ValueError" /\ position.shown = text)

\* C5 (amended): from_grid_locator fails with a ValueError for every string
\* whose length is not 4, 6 or 8, that error naming the locator, and for every
\* string of valid length with a character outside its position's class,
\* where positions 4-5 take the letters a-x in either case; it returns a
\* position only for strings that satisfy all of these.  The error of a bad
\* character does not name the locator string.
C5_RejectsAllButAcceptedLocators ==
    pc = "parsed" =>
        /\ position.exc = "none" <=> IsAcceptedLocator(text)
        /\ position.exc # "none" => position.exc = "ValueError"
        /\ Len(text) \notin {4, 6, 8} => position.shown = text
        /\ (Len(text) \in {4, 6, 8} /\ position.exc # "none") => position.shown # text

\* C5 witness: from_grid_locator was called on JN44FH, whose subsquare
\* letters are in upper case, and returned a position
C5_Witness ==
    /\ pc = "parsed"
    /\ text = Str(<<"J", "N", "4", "4", "F", "H">>)
    /\ position.exc = "none"

----------------------------------------------------------------------------
(* point.Point and baken.Baken *)

\* An optional argument: None, or a value
None == [none |-> TRUE, v |-> 0]
Some(x) == [none |-> FALSE, v |-> x]
NoString == [none |-> TRUE, s |-> <<>>]
String(x) == [none |-> FALSE, s |-> x]

NoObject == [exists |-> FALSE, _latitude |-> 0, _longitude |-> 0,
             _rad_latitude |-> 0, _rad_longitude |-> 0, _locator |-> NoString]

\* math.radians in fixed point, pi taken as 355/113: units of
\* 1/UnitsPerDegree degree to units of 1/UnitsPerDegree radian
Radians(u) == PyInt(u * 355, 113 * 180)

\* Point.__init__(latitude, longitude) with the default units, angle and
\* timezone: the degrees are range-checked and stored with their radians
PointInit(lat, lon) ==
    IF lon.none
    THEN [exc |-> "TypeError", self |-> NoObject]
    ELSE IF ~(-90 * UnitsPerDegree <= lat /\ lat <= 90 * UnitsPerDegree)
    THEN [exc |-> "ValueError", self |-> NoObject]
    ELSE IF ~(-180 * UnitsPerDegree <= lon.v /\ lon.v <= 180 * UnitsPerDegree)
    THEN [exc |-> "ValueError", self |-> NoObject]
    ELSE [exc |-> "none",
          self |-> [exists |-> TRUE, _latitude |-> lat, _longitude |-> lon.v,
                    _rad_latitude |-> Radians(lat), _rad_longitude |-> Radians(lon.v),
                    _locator |-> NoString]]

\* A constructor that has no use for the locator
BakenInitWithoutLocator(lat, lon, loc) ==
    IF ~lat.none THEN PointInit(lat.v, lon)
    ELSE [exc |-> "LookupError", self |-> NoObject]

\* Baken.__init__(latitude, longitude, locator=locator)
BakenInit(lat, lon, loc) ==
    LET fromLocator == from_grid_locator(loc.s)
        made == IF ~lat.none THEN PointInit(lat.v, lon)
                ELSE IF ~loc.none
                THEN IF fromLocator.exc = "none"
                     THEN PointInit(fromLocator.latitude, Some(fromLocator.longitude))
                     ELSE [exc |-> fromLocator.exc, self |-> NoObject]
                ELSE [exc |-> "LookupError", self |-> NoObject]
    IN  IF made.exc = "none"
        THEN [exc |-> "none", self |-> [made.self EXCEPT !._locator = loc]]
        ELSE made

\* Baken._set_locator(value): the new locator is stored, then the position
\* is taken from it
SetLocator(self, value) ==
    LET stored == [self EXCEPT !._locator = String(value)]
        fromLocator == from_grid_locator(value)
    IN  IF fromLocator.exc = "none"
        THEN [exc |-> "none",
              self |-> [stored EXCEPT !._latitude = fromLocator.latitude,
                                      !._longitude = fromLocator.longitude]]
        ELSE [exc |-> fromLocator.exc, self |-> stored]

----------------------------------------------------------------------------
(* The Baken session: an object is constructed, then its locator is        *)
(* assigned any number of times.                                           *)

BakenLatitudeInputs ==
    {None, Some(Deg(14, 460)), Some(0), Some(Deg(53, 229)), Some(-92 * UnitsPerDegree)}

BakenLongitudeInputs ==
    {None, Some(Deg(20, 680)), Some(-Deg(1, 875)), Some(185 * UnitsPerDegree)}

\* Locator strings a caller assigns: valid ones of every length, and ones
\* that from_grid_locator refuses for each of its reasons
BakenLocatorInputs ==
    { Str(<<"I", "O", "9", "3", "B", "F">>),
      Str(<<"J", "N", "4", "4", "F", "H">>),
      Str(<<"I", "O", "9", "2">>),
      Str(<<"B", "L", "1", "1", "b", "h", "1", "6">>),
      Str(<<"Z", "Z", "0", "0">>),
      Str(<<"I", "O", "9">>),
      Str(<<"I", "O", "a", "b">>) }

InitBaken == pc = "start" /\ LocInit /\ BakenIdle /\ DmsIdle /\ RestIdle

\* Baken(latitude, longitude, locator=locator)
NewBaken ==
    /\ ~baken.exists
    /\ \E lat \in BakenLatitudeInputs, lon \in BakenLongitudeInputs,
          loc \in {NoString} \cup {String(x) : x \in BakenLocatorInputs} :
        LET made == BakenInit(lat, lon, loc)
        IN  /\ baken' = made.self
            /\ raised' = made.exc
            /\ bakenCall' = [latitude |-> lat, longitude |-> lon, locator |-> loc]
            /\ pc' = IF made.exc = "none" THEN "constructed" ELSE "failed"
    /\ UNCHANGED <<locVars, dmsVars, restVars>>

\* baken.locator = value
AssignLocator ==
    /\ baken.exists
    /\ \E value \in BakenLocatorInputs :
        LET set == SetLocator(baken, value)
        IN  /\ baken' = set.self
            /\ raised' = set.exc
    /\ pc' = "assigned"
    /\ UNCHANGED bakenCall
    /\ UNCHANGED <<locVars, dmsVars, restVars>>

NextBaken == NewBaken \/ AssignLocator

SpecBaken == InitBaken /\ [][NextBaken]_vars

----------------------------------------------------------------------------
(* Claims about the Baken object *)

\* C6 (as claimed): in every state reachable by constructing a point and then
\* assigning its locator any number of times, the cached radian latitude and
\* longitude are the radian conversion of the current degree latitude and
\* longitude.
C6_RadianCacheFollowsDegrees ==
    baken.exists =>
        /\ baken._rad_latitude = Radians(baken._latitude)
        /\ baken._rad_longitude = Radians(baken._longitude)

\* C7 (as claimed): in every reachable state of a Baken whose locator is not
\* None its latitude and longitude equal from_grid_locator(locator).
C7_PositionIsLocatorPosition ==
    (baken.exists /\ ~baken._locator.none) =>
        LET p == from_grid_locator(baken._locator.s)
        IN  /\ p.exc = "none"
            /\ baken._latitude = p.latitude
            /\ baken._longitude = p.longitude

\* C8 (as claimed): assigning an invalid locator string fails with an error
\* and leaves the object's locator, latitude and longitude all unchanged.
C8_FailedAssignmentChangesNothing ==
    [][(baken.exists /\ raised' # "none") =>
            /\ baken'._locator = baken._locator
            /\ baken'._latitude = baken._latitude
            /\ baken'._longitude = baken._longitude]_vars

----------------------------------------------------------------------------
(* utils.to_dms and utils.to_dd.  An angle is a whole number of ticks,     *)
(* TicksPerSecond to the arcsecond.  In a tuple the degrees and the        *)
(* seconds are whole numbers and the minutes are counted in sixtieths of a *)
(* minute, which holds the whole minutes of the dms style and the          *)
(* fractional minutes, int(minutes) + int(seconds) / 60, of the dm style.  *)

TicksPerSecond == 2 * 5

\* An angle of whole degrees and thousandths of a degree, in ticks
Arc(whole, thousandths) ==
    whole * 3600 * TicksPerSecond + (thousandths * 3600 * TicksPerSecond) \div 1000

NoTuple == [exc |-> "unset", value |-> <<>>]

\* divmod() of non-negative numbers
DivMod(a, b) == <<a \div b, a % b>>

\* The tuple with the sign on the degrees alone
to_dms_SignOnDegrees(x, st) ==
    LET sign == IF x < 0 THEN -1 ELSE 1
        split == DivMod(Abs(x), 60 * TicksPerSecond)
        upper == DivMod(split[1], 60)
    IN  IF st = "dms"
        THEN [exc |-> "none",
              value |-> <<sign * upper[1], 60 * upper[2], split[2] \div TicksPerSecond>>]
        ELSE [exc |-> "none",
              value |-> <<sign * upper[1], 60 * upper[2] + split[2] \div TicksPerSecond>>]

to_dms(x, st) ==
    IF x = 0
    THEN [exc |-> "ZeroDivisionError", value |-> <<>>]
    ELSE
    LET sign == PyInt(x, Abs(x))
        split == DivMod(Abs(x), 60 * TicksPerSecond)   \* minutes, seconds
        upper == DivMod(split[1], 60)                  \* degrees, minutes
        degrees == upper[1]
        minutes == upper[2]
        seconds == split[2] \div TicksPerSecond        \* int(seconds)
    IN  IF st = "dms"
        THEN [exc |-> "none",
              value |-> <<sign * degrees, sign * (60 * minutes), sign * seconds>>]
        ELSE IF st = "dm"
        THEN [exc |-> "none",
              value |-> <<sign * degrees, sign * (60 * minutes + seconds)>>]
        ELSE [exc |-> "ValueError", value |-> <<>>]

\* The seconds divided by 60 where 3600 is meant
to_dd_SecondsAsMinutes(t) ==
    t[1] * 3600 + t[2] + (IF Len(t) = 3 THEN t[3] * 60 ELSE 0)

\* to_dd(*t), in arcseconds: degrees + minutes / 60 + seconds / 3600
to_dd(t) ==
    t[1] * 3600 + t[2] + (IF Len(t) = 3 THEN t[3] ELSE 0)

----------------------------------------------------------------------------
(* The conversion session: one call of to_dms whose tuple, when it returns *)
(* one, is handed to to_dd; or one call of to_dd on a tuple of the         *)
(* caller's.                                                               *)

\* Number of steps of the grid of sampled angles
NAngles == 40

AngleInputs ==
    { -180 * 3600 * TicksPerSecond + (360 * 3600 * TicksPerSecond * k) \div NAngles :
        k \in 0..NAngles }
    \cup { Arc(52, 15), -Arc(0, 221), Arc(33, 940), -Arc(118, 400), 0 }
    \cup { sg * t : sg \in {-1, 1},
                    t \in { 1, TicksPerSecond - 1, TicksPerSecond,
                            60 * TicksPerSecond - 1, 60 * TicksPerSecond,
                            3600 * TicksPerSecond - 1, 3600 * TicksPerSecond + 1 } }

StyleInputs == {"dms", "dm", "d"}

\* Tuples a caller writes: of either sign, and of mixed signs
TupleInputs ==
    { <<d, 60 * m, sec>> : d \in {-1, 0, 50}, m \in {-3, 0, 20}, sec \in {-12, 0, 10} }
    \cup { <<d, m>> : d \in {-1, 0, 52}, m \in {-795, 0, 54} }

InitDms == pc = "start" /\ LocInit /\ BakenIdle /\ DmsIdle /\ RestIdle

\* A caller calls to_dms
ToDms ==
    /\ pc = "start"
    /\ \E x \in AngleInputs, st \in StyleInputs :
        /\ angle' = x
        /\ style' = st
        /\ dms' = to_dms(x, st)
    /\ pc' = "split"
    /\ UNCHANGED <<dd, locVars, bakenVars, restVars>>

\* The caller hands the tuple it got to to_dd
ToDdOfTuple ==
    /\ pc = "split"
    /\ dms.exc = "none"
    /\ dd' = to_dd(dms.value)
    /\ pc' = "rejoined"
    /\ UNCHANGED <<angle, style, dms, locVars, bakenVars, restVars>>

\* A caller calls to_dd on a tuple of its own
ToDd ==
    /\ pc = "start"
    /\ \E t \in TupleInputs :
        /\ dms' = [exc |-> "none", value |-> t]
        /\ dd' = to_dd(t)
    /\ pc' = "joined"
    /\ UNCHANGED <<angle, style, locVars, bakenVars, restVars>>

NextDms == ToDms \/ ToDdOfTuple \/ ToDd

SpecDms == InitDms /\ [][NextDms]_vars

----------------------------------------------------------------------------
(* Claims about the degree conversions *)

Sign(x) == IF x < 0 THEN -1 ELSE IF x > 0 THEN 1 ELSE 0

\* Every component is zero or has the sign sg
SignedLike(t, sg) == \A i \in 1..Len(t) : t[i] = 0 \/ Sign(t[i]) = sg

\* C9: for every positive and every negative angle x, to_dd(*to_dms(x))
\* differs from x by less than one arcsecond, and to_dd(*to_dms(x, 'dm'))
\* likewise.
C9_DmsRoundTripWithinOneSecond ==
    /\ (pc = "split" /\ angle # 0 /\ style \in {"dms", "dm"}) => dms.exc = "none"
    /\ pc = "rejoined" => Abs(dd * TicksPerSecond - angle) < TicksPerSecond

\* C9 witness: a negative angle with a fraction of a second went through
\* to_dms and to_dd in the dms style and came back changed
C9_Witness ==
    /\ pc = "rejoined"
    /\ angle = -Arc(0, 221)
    /\ style = "dms"
    /\ dms.value = <<0, -13 * 60, -15>>
    /\ dd * TicksPerSecond # angle

\* C10: every component of the tuple to_dms returns, in the dms and the dm
\* style, is zero or has the sign of x, and to_dd of a tuple whose components
\* share a sign has that sign.
C10_SignConsistentTuples ==
    /\ (pc = "split" /\ dms.exc = "none") => SignedLike(dms.value, Sign(angle))
    /\ pc \in {"joined", "rejoined"} =>
        \A sg \in {-1, 1} :
            SignedLike(dms.value, sg) =>
                /\ dd = 0 \/ Sign(dd) = sg
                /\ dd = 0 <=> \A i \in 1..Len(dms.value) : dms.value[i] = 0

\* C10 witness: to_dms of a negative angle of less than a degree returned a
\* tuple with a zero and two negative components
C10_Witness ==
    /\ pc = "split"
    /\ angle = -Arc(0, 221)
    /\ style = "dms"
    /\ dms.exc = "none"
    /\ dms.value[1] = 0 /\ dms.value[2] < 0 /\ dms.value[3] < 0

----------------------------------------------------------------------------
(* utils.to_iso6709 and utils.from_iso6709.  Latitude and longitude are    *)
(* whole numbers of ticks, as in to_dms; an altitude is a whole number of  *)
(* thousandths of a metre.                                                 *)

TicksPerDegree == 3600 * TicksPerSecond

UnitsPerMetre == 10 * 100

RECURSIVE Pow10(_)
Pow10(k) == IF k = 0 THEN 1 ELSE 10 * Pow10(k - 1)

\* Zero fill on the left up to a width
RECURSIVE ZeroPad(_, _)
ZeroPad(s, width) == IF Len(s) >= width THEN s ELSE ZeroPad(<<48>> \o s, width)

\* "%+0<width>i" % n
FormatSignedInt(n, width) ==
    <<IF n < 0 THEN 45 ELSE 43>> \o ZeroPad(str(Abs(n)), width - 1)

\* "%0<width>i" % n: a negative number carries its minus sign
FormatInt(n, width) ==
    IF n < 0 THEN <<45>> \o ZeroPad(str(-n), width - 1) ELSE ZeroPad(str(n), width)

\* The quotient a / b of non-negative numbers rounded to the nearest whole
\* number, a tie going to the even neighbour of the number whose last digits
\* are the quotient (parity is that number's parity below the tie).  This is
\* the rounding of a value the binary format holds exactly, such as a half.
RoundHalfEven(a, b, parity) ==
    LET q == a \div b
        r == a % b
    IN  IF 2 * r > b \/ (2 * r = b /\ (q + parity) % 2 = 1) THEN q + 1 ELSE q

\* "%+0<width>.<places>f" % (x / unit)
FormatSignedFixed(x, unit, width, places) ==
    LET whole == Abs(x) \div unit
        scaled == RoundHalfEven((Abs(x) % unit) * Pow10(places), unit,
                                IF places = 0 THEN whole ELSE 0)
        carried == whole + scaled \div Pow10(places)
        digits == str(carried) \o
                  (IF places = 0 THEN <<>>
                   ELSE <<46>> \o ZeroPad(str(scaled % Pow10(places)), places))
    IN  <<IF x < 0 THEN 45 ELSE 43>> \o ZeroPad(digits, width - 1)

\* The altitude field: "if altitude and int(altitude) == altitude" and
\* "elif altitude"
AltitudeField(altitude) ==
    IF altitude.none \/ altitude.v = 0 THEN <<>>
    ELSE IF altitude.v % UnitsPerMetre = 0
    THEN FormatSignedInt(PyInt(altitude.v, UnitsPerMetre), 1)
    ELSE FormatSignedFixed(altitude.v, UnitsPerMetre, 1, 3)

\* The altitude field appended for every altitude that is given
AltitudeFieldWheneverGiven(altitude) ==
    IF altitude.none THEN <<>>
    ELSE IF altitude.v % UnitsPerMetre = 0
    THEN FormatSignedInt(PyInt(altitude.v, UnitsPerMetre), 1)
    ELSE FormatSignedFixed(altitude.v, UnitsPerMetre, 1, 3)

\* The four formats of the latitude and longitude fields
AngleFields(lat, lon, format, prec) ==
    IF format = "d"
    THEN [exc |-> "none",
          value |-> FormatSignedInt(PyInt(lat, TicksPerDegree), 3)
                    \o FormatSignedInt(PyInt(lon, TicksPerDegree), 4)]
    ELSE IF format = "dd"
    THEN [exc |-> "none",
          value |-> FormatSignedFixed(lat, TicksPerDegree, prec + 4, prec)
                    \o FormatSignedFixed(lon, TicksPerDegree, prec + 5, prec)]
    ELSE IF format \in {"dm", "dms"}
    THEN LET a == to_dms(lat, format)
             b == to_dms(lon, format)
             tail(t) == IF format = "dm"
                        THEN FormatInt(PyInt(t[2], 60), 2)
                        ELSE FormatInt(PyInt(t[2], 60), 2) \o FormatInt(t[3], 2)
         IN  IF a.exc # "none" THEN [exc |-> a.exc, value |-> <<>>]
             ELSE IF b.exc # "none" THEN [exc |-> b.exc, value |-> <<>>]
             ELSE [exc |-> "none",
                   value |-> FormatSignedInt(a.value[1], 3) \o tail(a.value)
                             \o FormatSignedInt(b.value[1], 4) \o tail(b.value)]
    ELSE [exc |-> "ValueError", value |-> <<>>]

to_iso6709(lat, lon, altitude, format, prec) ==
    LET fields == AngleFields(lat, lon, format, prec)
    IN  IF fields.exc # "none" THEN fields
        ELSE [exc |-> "none",
              value |-> fields.value \o AltitudeField(altitude) \o <<47>>]

IsSign(c) == c \in {43, 45}

\* The character class [\d\.]
IsNumberChar(c) == IsDigit(c) \/ c = 46

SignPositions(s) == { i \in 1..Len(s) : IsSign(s[i]) }

\* re.match(r'^([-+][\d\.]+)([-+][\d\.]+)([+-][\d\.]+)?/$', s) finds a match
\* (a string never ends in a line feed here)
Matches(s) ==
    /\ Len(s) >= 1
    /\ s[Len(s)] = 47
    /\ \A i \in 1..(Len(s) - 1) : IsSign(s[i]) \/ IsNumberChar(s[i])
    /\ 1 \in SignPositions(s)
    /\ Cardinality(SignPositions(s)) \in {2, 3}
    /\ \A i \in SignPositions(s) : i + 1 < Len(s) /\ IsNumberChar(s[i + 1])

\* matches.groups(): the fields, each from its sign up to the next sign or
\* to the solidus; the third is None when there are two
Groups(s) ==
    LET starts == SignPositions(s)
        end(i) == IF \E j \in starts : j > i
                  THEN (CHOOSE j \in starts : j > i /\ \A k \in starts : k > i => j <= k) - 1
                  ELSE Len(s) - 1
        second == end(1) + 1
        third == end(second) + 1
    IN  [latitude |-> SubSeq(s, 1, end(1)),
         longitude |-> SubSeq(s, second, end(second)),
         altitude |-> IF Cardinality(starts) = 3
                      THEN String(SubSeq(s, third, end(third)))
                      ELSE NoString]

\* The length of the whole field, decimals and all
HeadLengthWholeField(field) == Len(field)

\* len(field.split(".")[0])
HeadLength(field) ==
    IF \E i \in 1..Len(field) : field[i] = 46
    THEN (CHOOSE i \in 1..Len(field) :
            field[i] = 46 /\ \A j \in 1..(i - 1) : field[j] # 46) - 1
    ELSE Len(field)

RECURSIVE DigitsValue(_)
DigitsValue(s) ==
    IF Len(s) = 0 THEN 0
    ELSE 10 * DigitsValue(SubSeq(s, 1, Len(s) - 1)) + (s[Len(s)] - 48)

\* float(s) of a string of an optional sign, digits and dots, in units of
\* 1/unit: an error unless there is a digit and at most one dot
ParseFloat(s, unit) ==
    LET signed == Len(s) > 0 /\ IsSign(s[1])
        body == IF signed THEN Tail(s) ELSE s
        dots == { i \in 1..Len(body) : body[i] = 46 }
        ok == /\ \A i \in 1..Len(body) : IsNumberChar(body[i])
              /\ \E i \in 1..Len(body) : IsDigit(body[i])
              /\ Cardinality(dots) <= 1
        dot == IF dots = {} THEN Len(body) + 1 ELSE CHOOSE i \in dots : TRUE
        whole == SubSeq(body, 1, dot - 1)
        frac == SubSeq(body, dot + 1, Len(body))
        magnitude == DigitsValue(whole) * unit
                     + (DigitsValue(frac) * unit) \div Pow10(Len(frac))
    IN  IF ~ok THEN [ok |-> FALSE, v |-> 0]
        ELSE [ok |-> TRUE, v |-> IF signed /\ s[1] = 45 THEN -magnitude ELSE magnitude]

\* The angle of a field whose degrees take the first `degrees' characters:
\* float(f) when the head is that long, degrees and minutes when it is two
\* longer, degrees, minutes and seconds when it is four longer
FieldAngle(field, degrees) ==
    LET head == HeadLength(field)
        d == ParseFloat(SubSeq(field, 1, degrees), TicksPerDegree)
        m == ParseFloat(SubSeq(field, degrees + 1, Len(field)), 60 * TicksPerSecond)
        mm == ParseFloat(SubSeq(field, degrees + 1, degrees + 2), 60 * TicksPerSecond)
        ss == ParseFloat(SubSeq(field, degrees + 3, Len(field)), TicksPerSecond)
        whole == ParseFloat(field, TicksPerDegree)
    IN  IF head = degrees
        THEN [exc |-> IF whole.ok THEN "none" ELSE "float", v |-> whole.v]
        ELSE IF head = degrees + 2
        THEN [exc |-> IF d.ok /\ m.ok THEN "none" ELSE "float", v |-> d.v + m.v]
        ELSE IF head = degrees + 4
        THEN [exc |-> IF d.ok /\ mm.ok /\ ss.ok THEN "none" ELSE "float",
              v |-> d.v + mm.v + ss.v]
        ELSE [exc |-> "head", v |-> 0]

IsoRaised(message, what) ==
    [exc |-> "ValueError", msg |-> message, shown |-> what,
     latitude |-> 0, longitude |-> 0, altitude |-> None]

IsoReturned(lat, lon, altitude) ==
    [exc |-> "none", msg |-> "", shown |-> <<>>,
     latitude |-> lat, longitude |-> lon, altitude |-> altitude]

from_iso6709(coordinates) ==
    IF ~Matches(coordinates)
    THEN IsoRaised("Incorrect format for string", <<>>)
    ELSE
    LET g == Groups(coordinates)
        lat == FieldAngle(g.latitude, 3)
        lon == FieldAngle(g.longitude, 4)
        alt == ParseFloat(g.altitude.s, UnitsPerMetre)
    IN  IF lat.exc = "head"
        THEN IsoRaised("Incorrect format for latitude", g.latitude)
        ELSE IF lat.exc = "float" THEN IsoRaised("float", <<>>)
        ELSE IF lon.exc = "head"
        THEN IsoRaised("Incorrect format for longitude", g.longitude)
        ELSE IF lon.exc = "float" THEN IsoRaised("float", <<>>)
        ELSE IF g.altitude.none THEN IsoReturned(lat.v, lon.v, None)
        ELSE IF ~alt.ok THEN IsoRaised("float", <<>>)
        ELSE IsoReturned(lat.v, lon.v, Some(alt.v))

----------------------------------------------------------------------------
(* The ISO 6709 session: one call of to_iso6709 whose string, when it      *)
(* returns one, is handed to from_iso6709; or one call of from_iso6709 on  *)
(* a string of the caller's.                                               *)

\* An angle of degrees, minutes and seconds, in ticks
Sexagesimal(d, m, sec) == ((d * 60 + m) * 60 + sec) * TicksPerSecond

IsoLatitudeInputs ==
    { 0, Sexagesimal(48, 51, 26), Sexagesimal(35, 21, 39), -Sexagesimal(52, 30, 0),
      -Sexagesimal(0, 30, 0), Sexagesimal(0, 0, 1), Sexagesimal(90, 0, 0),
      -Sexagesimal(90, 0, 0), Sexagesimal(45, 59, 59), Arc(35, 658), -Arc(12, 346) }

IsoLongitudeInputs ==
    { 0, Sexagesimal(2, 17, 40), Sexagesimal(139, 44, 44), -Sexagesimal(118, 24, 0),
      -Sexagesimal(0, 0, 30), Sexagesimal(10, 30, 0), Sexagesimal(180, 0, 0),
      -Sexagesimal(180, 0, 0), Arc(139, 746), -Arc(0, 127) }

IsoAltitudeInputs ==
    { None, Some(0), Some(8850 * UnitsPerMetre), Some(-12 * UnitsPerMetre - 500),
      Some(500), Some(1234 * UnitsPerMetre + 567) }

IsoFormatInputs == {"d", "dd", "dm", "dms", "dmsh"}

\* Largest number of decimals asked of the dd format
MaxPrecision == 3

IsoLatitudeFields ==
    { Str(<<"+", "0", "0">>), Str(<<"+", "4", "6">>), Str(<<"-", "9", "0">>), Str(<<"+", "9", "9">>),
      Str(<<"+", "4", "8", ".", "8", "5", "7">>), Str(<<"-", "1", "2", ".", "3", "4", "5", "6">>), Str(<<"+", "4", "8", "5", "2">>), Str(<<"+", "4", "8", "5", "2", ".", "5">>),
      Str(<<"-", "5", "2", "3", "0">>), Str(<<"+", "9", "9", "6", "0">>), Str(<<"+", "3", "5", "2", "1", "3", "9">>), Str(<<"+", "3", "5", "2", "1", "3", "9", ".", "5">>),
      Str(<<"-", "8", "9", "5", "9", "5", "9">>), Str(<<"+", "8", "9", "6", "0", "6", "0">>), Str(<<"+", "1">>), Str(<<"+", "1", "2", "3", "4">>),
      Str(<<"+", "1", "2", "3", "4", "5", "6">>), Str(<<"+", "1", "2", "3", "4", "5", "6", "7", "8">>), Str(<<"+", "1", "2", ".", "3", ".", "4">>), Str(<<"+", "1", "2", ".">>),
      Str(<<"+", "1", ".", "2", "5">>), Str(<<"+", ".", "5">>), Str(<<"+", "1", "2", "3", "4", ".", "5", ".", "6">>) }

IsoLongitudeFields ==
    { Str(<<"+", "0", "0", "0">>), Str(<<"+", "0", "0", "2">>), Str(<<"-", "1", "1", "8">>), Str(<<"+", "1", "8", "5">>),
      Str(<<"+", "0", "0", "2", ".", "2", "9", "4">>), Str(<<"+", "0", "0", "2", "1", "7">>), Str(<<"+", "0", "0", "2", "1", "7", ".", "5">>), Str(<<"-", "0", "1", "0", "3", "0">>),
      Str(<<"+", "1", "8", "0", "9", "9">>), Str(<<"+", "0", "0", "2", "1", "7", "4", "0">>), Str(<<"+", "1", "3", "9", "4", "4", "4", "4", ".", "5">>), Str(<<"-", "0", "0", "0", "1", "5", "3", "0">>),
      Str(<<"+", "1", "8">>), Str(<<"+", "1", "2", "3", "4", "5">>), Str(<<"+", "1", "2", "3", "4", "5", "6", "7", "8", "9">>), Str(<<"+", "0", "1", "3", ".", "1", ".", "2">>) }

IsoAltitudeFields ==
    { Str(<<"+", "0">>), Str(<<"+", "8", "8", "5", "0">>), Str(<<"-", "1", "2", ".", "5">>), Str(<<"+", "1", ".", "2", ".", "3">>), Str(<<"+", ".">>) }

\* Strings that are not two or three signed fields and a solidus
IsoMalformed ==
    { <<>>, Str(<<"/">>), Str(<<"a", "b", "c", "/">>), Str(<<"+", "4", "6", "/">>),
      Str(<<"4", "6", "+", "0", "0", "2", "/">>), Str(<<"+", "4", "6", "+", "0", "0", "2", "+", "1", "+", "2", "/">>), Str(<<" ", "+", "4", "6", "+", "0", "0", "2", "/">>), Str(<<"+", "4", "6", "-", "+", "0", "0", "2", "/">>),
      Str(<<"+", "4", "6", "+", "0", "0", "2">>), Str(<<"+", "4", "6", "+", "0", "0", "2", "/", "/">>), Str(<<"+", "4", "6", "+", "0", "0", "2", "+", "/">>), Str(<<"N", "4", "6", "E", "0", "0", "2", "/">>) }

IsoStringInputs ==
    { la \o lo \o <<47>> : la \in IsoLatitudeFields, lo \in IsoLongitudeFields }
    \cup { la \o lo \o al \o <<47>> :
            la \in IsoLatitudeFields, lo \in IsoLongitudeFields, al \in IsoAltitudeFields }
    \cup IsoMalformed

InitIso == pc = "start" /\ LocInit /\ BakenIdle /\ DmsIdle /\ RestIdle

\* text = to_iso6709(latitude, longitude, altitude, format, precision)
ToIso6709 ==
    /\ pc = "start"
    /\ \E lat \in IsoLatitudeInputs, lon \in IsoLongitudeInputs,
          alt \in IsoAltitudeInputs, fmt \in IsoFormatInputs, prec \in 0..MaxPrecision :
          /\ isoCall' = [latitude |-> lat, longitude |-> lon, altitude |-> alt,
                         format |-> fmt, precision |-> prec]
          /\ isoText' = to_iso6709(lat, lon, alt, fmt, prec)
    /\ pc' = "formatted"
    /\ UNCHANGED <<isoInput, isoParsed, notIsoVars>>

\* from_iso6709(text) of the string to_iso6709 returned
ParseFormatted ==
    /\ pc = "formatted"
    /\ isoText.exc = "none"
    /\ isoInput' = isoText.value
    /\ isoParsed' = from_iso6709(isoText.value)
    /\ pc' = "reparsed"
    /\ UNCHANGED <<isoCall, isoText, notIsoVars>>

\* from_iso6709(coordinates) of a string of the caller's
FromIso6709 ==
    /\ pc = "start"
    /\ \E coordinates \in IsoStringInputs :
          /\ isoInput' = coordinates
          /\ isoParsed' = from_iso6709(coordinates)
    /\ pc' = "isoparsed"
    /\ UNCHANGED <<isoCall, isoText, notIsoVars>>

NextIso == ToIso6709 \/ ParseFormatted \/ FromIso6709

SpecIso == InitIso /\ [][NextIso]_vars

----------------------------------------------------------------------------
(* Claims about the ISO 6709 codec *)

IsoFormats == {"d", "dm", "dms", "dd"}

\* The resolution of a format, in ticks
Resolution(format, prec) ==
    IF format = "d" THEN TicksPerDegree
    ELSE IF format = "dm" THEN 60 * TicksPerSecond
    ELSE IF format = "dms" THEN TicksPerSecond
    ELSE TicksPerDegree \div Pow10(prec)

\* C11 (as claimed): for every latitude in [-90, 90], longitude in
\* [-180, 180], optional altitude and each format of d, dm, dms and dd,
\* to_iso6709 returns a string, from_iso6709 of that string succeeds, and it
\* returns the latitude, longitude and altitude that were formatted, to
\* within the resolution of the format.
C11_IsoRoundTripWithinResolution ==
    (pc \in {"formatted", "reparsed"} /\ isoCall.format \in IsoFormats) =>
        /\ isoText.exc = "none"
        /\ pc = "reparsed" =>
            /\ isoParsed.exc = "none"
            /\ Abs(isoParsed.latitude - isoCall.latitude)
                  <= Resolution(isoCall.format, isoCall.precision)
            /\ Abs(isoParsed.longitude - isoCall.longitude)
                  <= Resolution(isoCall.format, isoCall.precision)
            /\ isoParsed.altitude = isoCall.altitude

\* A sign followed by one or more digits and dots
IsField(f) ==
    /\ Len(f) >= 2
    /\ IsSign(f[1])
    /\ \A k \in 2..Len(f) : IsNumberChar(f[k])

\* The number of characters of a field before its first dot
IntegerPartLength(f) ==
    Cardinality({ i \in 1..Len(f) : \A j \in 1..i : f[j] # 46 })

AtMostOneDot(f) == Cardinality({ i \in 1..Len(f) : f[i] = 46 }) <= 1

\* What a field reads as when its degrees take `degrees' characters and its
\* integer part takes `head'
Reading(f, head, degrees) ==
    IF head = degrees THEN ParseFloat(f, TicksPerDegree).v
    ELSE IF head = degrees + 2
    THEN ParseFloat(SubSeq(f, 1, degrees), TicksPerDegree).v
         + ParseFloat(SubSeq(f, degrees + 1, Len(f)), 60 * TicksPerSecond).v
    ELSE ParseFloat(SubSeq(f, 1, degrees), TicksPerDegree).v
         + ParseFloat(SubSeq(f, degrees + 1, degrees + 2), 60 * TicksPerSecond).v
         + ParseFloat(SubSeq(f, degrees + 3, Len(f)), TicksPerSecond).v

\* C12: from_iso6709 chooses the sub-format of each field from the length of
\* its integer part: 3, 5 or 7 characters of latitude and 4, 6 or 8 of
\* longitude read as degrees, degrees and minutes, or degrees, minutes and
\* seconds; any other length is a ValueError naming the field, latitude
\* before longitude; a string that is not two or three signed fields and a
\* solidus is a ValueError.
C12_SubFormatByHeadLength ==
    pc = "isoparsed" =>
        LET s == isoInput
            n == Len(s)
            Splits == { c \in (1..n) \X (1..n) :
                          /\ s[n] = 47
                          /\ c[1] < c[2] /\ c[2] <= n - 1
                          /\ IsField(SubSeq(s, 1, c[1]))
                          /\ IsField(SubSeq(s, c[1] + 1, c[2]))
                          /\ c[2] = n - 1 \/ IsField(SubSeq(s, c[2] + 1, n - 1)) }
        IN  /\ isoParsed.exc \in {"none", "ValueError"}
            /\ Splits = {} =>
                  /\ isoParsed.exc = "ValueError"
                  /\ isoParsed.msg = "Incorrect format for string"
            /\ \A c \in Splits :
                  LET la == SubSeq(s, 1, c[1])
                      lo == SubSeq(s, c[1] + 1, c[2])
                      al == SubSeq(s, c[2] + 1, n - 1)
                      a == IntegerPartLength(la)
                      b == IntegerPartLength(lo)
                  IN  /\ a \notin {3, 5, 7} =>
                            /\ isoParsed.exc = "ValueError"
                            /\ isoParsed.msg = "Incorrect format for latitude"
                            /\ isoParsed.shown = la
                      /\ (a \in {3, 5, 7} /\ AtMostOneDot(la) /\ b \notin {4, 6, 8}) =>
                            /\ isoParsed.exc = "ValueError"
                            /\ isoParsed.msg = "Incorrect format for longitude"
                            /\ isoParsed.shown = lo
                      /\ (a \in {3, 5, 7} /\ b \in {4, 6, 8}) =>
                            isoParsed.msg \notin {"Incorrect format for string",
                                                  "Incorrect format for latitude",
                                                  "Incorrect format for longitude"}
                      /\ (a \in {3, 5, 7} /\ b \in {4, 6, 8} /\ AtMostOneDot(la)
                            /\ AtMostOneDot(lo) /\ (al = <<>> \/ ParseFloat(al, 1).ok)) =>
                            /\ isoParsed.exc = "none"
                            /\ isoParsed.latitude = Reading(la, a, 3)
                            /\ isoParsed.longitude = Reading(lo, b, 4)

\* A latitude of degrees and fractional minutes with a longitude of degrees,
\* minutes and seconds
C12_Witness ==
    /\ pc = "isoparsed"
    /\ isoInput = Str(<<"+", "4", "8", "5", "2", ".", "5",
                        "+", "0", "0", "2", "1", "7", "4", "0", "/">>)
    /\ isoParsed.exc = "none"
    /\ isoParsed.latitude = 48 * TicksPerDegree + 52 * 60 * TicksPerSecond
                            + 30 * TicksPerSecond
    /\ isoParsed.longitude = Sexagesimal(2, 17, 40)

\* C13 (as claimed): from_iso6709 raises ValueError whenever the parsed
\* latitude is outside [-90, 90] or the parsed longitude is outside
\* [-180, 180]: it never returns an out-of-range coordinate.
C13_NeverReturnsOutOfRange ==
    (pc \in {"isoparsed", "reparsed"} /\ isoParsed.exc = "none") =>
        /\ Abs(isoParsed.latitude) <= 90 * TicksPerDegree
        /\ Abs(isoParsed.longitude) <= 180 * TicksPerDegree

\* C14 (as claimed): the string to_iso6709 returns ends with a solidus, and
\* between the angle fields and the solidus it holds the altitude whenever
\* one is given, 0 included: as a signed integer when it is whole and with
\* exactly three decimals when it is fractional; there is no altitude field
\* only when the altitude is None.
C14_AltitudeAppendedWheneverGiven ==
    (pc = "formatted" /\ isoText.exc = "none") =>
        LET t == isoText.value
            fields == AngleFields(isoCall.latitude, isoCall.longitude,
                                  isoCall.format, isoCall.precision).value
            field == SubSeq(t, Len(fields) + 1, Len(t) - 1)
        IN  /\ t[Len(t)] = 47
            /\ SubSeq(t, 1, Len(fields)) = fields
            /\ field = AltitudeFieldWheneverGiven(isoCall.altitude)
            /\ (field = <<>>) <=> isoCall.altitude.none

----------------------------------------------------------------------------
(* utils.sun_rise_set and utils.sun_events.  The astronomy that precedes   *)
(* the decision (the Sun's position for the day, the latitude and the      *)
(* zenith) is not computed: its two results, the cosine of the local hour  *)
(* angle and the universal time of the event, are an ephemeris the caller  *)
(* supplies.  A cosine is a whole number of thousandths and a time of day  *)
(* is a whole number of tenths of a minute, so that a time between two     *)
(* minutes can be told from a whole minute.                                *)

CosineUnits == 10 * 100

UnitsPerMinute == 2 * 5

UnitsPerHour == 60 * UnitsPerMinute

\* a % b of floats: the result has the sign of the divisor
PyMod(a, b) == IF b > 0 THEN a % b ELSE -((-a) % (-b))

\* The keys of ZENITH
Zeniths == {"None", "civil", "nautical", "astronomical"}

SunTime(h, m) == [exc |-> "none", none |-> FALSE, hour |-> h, minute |-> m]
SunNone == [exc |-> "none", none |-> TRUE, hour |-> 0, minute |-> 0]
SunRaised(kind) == [exc |-> kind, none |-> FALSE, hour |-> 0, minute |-> 0]
SunUnset == [exc |-> "unset", none |-> FALSE, hour |-> 0, minute |-> 0]

\* The Sun never rises only: the test for a Sun that never sets is left out
NoEventNeverRises(cosH) == cosH > CosineUnits

\* "if cosH > 1: return None" and "if cosH < -1: return None"
NoEvent(cosH) == cosH > CosineUnits \/ cosH < -CosineUnits

\* datetime.time(hour, minute)
Time(h, m) ==
    IF 0 <= h /\ h <= 23 /\ 0 <= m /\ m <= 59 THEN SunTime(h, m)
    ELSE SunRaised("ValueError")

\* The hour and minute of a local time, as the last lines of sun_rise_set
\* work them out
HourMinute(localT) ==
    LET hour == PyInt(localT, UnitsPerHour)
        minute == IF hour = 0 THEN PyInt(localT, UnitsPerMinute)
                  ELSE PyInt(PyMod(localT, hour * UnitsPerHour), UnitsPerMinute)
    IN  Time(IF hour < 0 THEN hour + 23 ELSE hour,
             IF minute < 0 THEN minute + 60 ELSE minute)

sun_rise_set(ephemeris, mode, timezone, zenith) ==
    IF zenith \notin Zeniths THEN SunRaised("KeyError")
    ELSE IF mode \notin {"rise", "set"} THEN SunRaised("ValueError")
    ELSE IF NoEvent(ephemeris.cosH) THEN SunNone
    ELSE HourMinute(ephemeris.UT + timezone * UnitsPerMinute)

\* The pair of sun_events, or the first exception of its two calls
sun_events(rise, set, timezone, zenith) ==
    LET r == sun_rise_set(rise, "rise", timezone, zenith)
        t == sun_rise_set(set, "set", timezone, zenith)
    IN  IF r.exc # "none" THEN [exc |-> r.exc, value |-> <<SunUnset, SunUnset>>]
        ELSE IF t.exc # "none" THEN [exc |-> t.exc, value |-> <<SunUnset, SunUnset>>]
        ELSE [exc |-> "none", value |-> <<r, t>>]

----------------------------------------------------------------------------
(* The Sun session: one call of sun_rise_set with the default timezone,    *)
(* then the same call with a timezone; or one call of sun_events.          *)

\* A time of hours, minutes and tenths of a minute
Clock(h, m, tenths) == (h * 60 + m) * UnitsPerMinute + tenths

CosineInputs ==
    { -CosineUnits - 500, -CosineUnits - 1, -CosineUnits, -CosineUnits + 1, 0, 618,
      CosineUnits, CosineUnits + 1, 2 * CosineUnits + 500 }

UniversalTimeInputs ==
    { Clock(3, 40, 8), Clock(20, 23, 0), -Clock(3, 37, 1), -Clock(3, 37, 0),
      -Clock(3, 0, 0), -Clock(0, 30, 0), -6, 0, 5, Clock(23, 59, 9),
      -Clock(23, 0, 5), Clock(12, 0, 0), Clock(7, 58, 3) }

\* Offsets from UTC, in minutes
TimezoneInputs == {0, 60, -60, 240, -221, -240, 540, 1440, -1440}

ModeInputs == {"rise", "set", "noon"}

ZenithInputs == Zeniths \cup {"dusk"}

\* The ephemerides of a day's rise and set, for sun_events
EventInputs ==
    [cosH : {-CosineUnits - 500, 618, CosineUnits + 1},
     UT : {Clock(3, 40, 8), -Clock(3, 37, 1), Clock(20, 23, 0)}]

InitSun == pc = "start" /\ LocInit /\ BakenIdle /\ DmsIdle /\ RestIdle

\* sun_rise_set(latitude, longitude, date, mode, zenith=zenith)
SunRiseSet ==
    /\ pc = "start"
    /\ \E c \in CosineInputs, ut \in UniversalTimeInputs,
          mode \in ModeInputs, zenith \in ZenithInputs :
          /\ sunCall' = [zenith |-> zenith, mode |-> mode, timezone |-> 0,
                         cosH |-> c, UT |-> ut]
          /\ sunBase' = sun_rise_set([cosH |-> c, UT |-> ut], mode, 0, zenith)
    /\ pc' = "sunrise"
    /\ UNCHANGED <<sunShifted, sunEvents, notSunVars>>

\* The same call with timezone=k
SunRiseSetInZone ==
    /\ pc = "sunrise"
    /\ \E k \in TimezoneInputs :
          /\ sunCall' = [sunCall EXCEPT !.timezone = k]
          /\ sunShifted' = sun_rise_set([cosH |-> sunCall.cosH, UT |-> sunCall.UT],
                                        sunCall.mode, k, sunCall.zenith)
    /\ pc' = "sunzone"
    /\ UNCHANGED <<sunBase, sunEvents, notSunVars>>

\* sun_events(latitude, longitude, date, timezone, zenith)
SunEvents ==
    /\ pc = "start"
    /\ \E rise \in EventInputs, set \in EventInputs,
          k \in {0, 60, -240}, zenith \in {"None", "civil", "dusk"} :
          LET r == sun_events(rise, set, k, zenith)
          IN  sunEvents' = [zenith |-> zenith, timezone |-> k, rise |-> rise,
                            set |-> set, exc |-> r.exc, value |-> r.value]
    /\ pc' = "sunevents"
    /\ UNCHANGED <<sunCall, sunBase, sunShifted, notSunVars>>

NextSun == SunRiseSet \/ SunRiseSetInZone \/ SunEvents

SpecSun == InitSun /\ [][NextSun]_vars

----------------------------------------------------------------------------
(* Claims about sun_rise_set and sun_events *)

\* The outcome of the call the session made last
LastSun == IF pc = "sunzone" THEN sunShifted ELSE sunBase

\* The call is one whose mode and zenith are known
KnownCall == sunCall.mode \in {"rise", "set"} /\ sunCall.zenith \in Zeniths

OutsideUnit(c) == c > CosineUnits \/ c < -CosineUnits

\* C15: sun_rise_set returns None, without raising, exactly when the cosine
\* of the local hour angle is greater than 1 or less than -1; sun_events
\* reports that None in the corresponding position of its (rise, set) pair.
C15_NoneExactlyOutsideUnitCosine ==
    /\ (pc \in {"sunrise", "sunzone"} /\ KnownCall) =>
          ((LastSun.exc = "none" /\ LastSun.none) <=> OutsideUnit(sunCall.cosH))
    /\ (pc = "sunevents" /\ sunEvents.zenith \in Zeniths) =>
          /\ sunEvents.exc = "none" =>
                /\ sunEvents.value[1].none <=> OutsideUnit(sunEvents.rise.cosH)
                /\ sunEvents.value[2].none <=> OutsideUnit(sunEvents.set.cosH)
          /\ (OutsideUnit(sunEvents.rise.cosH) /\ OutsideUnit(sunEvents.set.cosH)) =>
                sunEvents.exc = "none"

\* A day without sunrise and sunset: sun_events returns (None, None)
C15_Witness ==
    /\ pc = "sunevents"
    /\ sunEvents.rise.cosH = CosineUnits + 1
    /\ sunEvents.set.cosH = CosineUnits + 1
    /\ sunEvents.exc = "none"
    /\ sunEvents.value = <<SunNone, SunNone>>

MinutesPerDay == 24 * 60

\* C16 (as claimed): where the event occurs, sun_rise_set with timezone = k
\* minutes returns the time of day returned with timezone = 0 advanced by k
\* minutes, modulo 24 hours, for every offset k.
C16_TimezoneShiftsModuloDay ==
    (pc = "sunzone" /\ sunBase.exc = "none" /\ ~sunBase.none) =>
        /\ sunShifted.exc = "none"
        /\ ~sunShifted.none
        /\ 60 * sunShifted.hour + sunShifted.minute
              = (((60 * sunBase.hour + sunBase.minute + sunCall.timezone)
                    % MinutesPerDay) + MinutesPerDay) % MinutesPerDay

\* C17 (as claimed): for every computed local time t with -24h < t < 0 the
\* returned hour and minute are those of t + 24h truncated to the minute.
C17_NegativeWraparoundIsNextDay ==
    LET localT == sunCall.UT + sunCall.timezone * UnitsPerMinute
        minutes == (localT + 24 * UnitsPerHour) \div UnitsPerMinute
    IN  (pc \in {"sunrise", "sunzone"} /\ KnownCall /\ ~OutsideUnit(sunCall.cosH)
            /\ -24 * UnitsPerHour < localT /\ localT < 0) =>
            LastSun = SunTime(minutes \div 60, minutes % 60)

----------------------------------------------------------------------------
(* utils.angle_to_distance and utils.distance_to_angle.  Numbers are exact *)
(* fractions n/d in lowest terms with d > 0.  An angle is in degrees; a    *)
(* distance is in units of pi/180 of the unit of length, so that           *)
(* math.radians multiplies by one and math.degrees divides by one and the  *)
(* factor pi/180 never has to be written.                                  *)

RECURSIVE GCD(_, _)
GCD(a, b) == IF b = 0 THEN a ELSE GCD(b, a % b)

\* The fraction n/d in lowest terms
Rat(n, d) ==
    LET g == GCD(Abs(n), Abs(d))
        sg == IF d < 0 THEN -1 ELSE 1
    IN  [n |-> sg * (n \div g), d |-> sg * (d \div g)]

\* x * y, cancelling before multiplying
RatMul(x, y) ==
    LET a == Rat(x.n, y.d)
        b == Rat(y.n, x.d)
    IN  [n |-> a.n * b.n, d |-> a.d * b.d]

\* x / y for y other than 0
RatDiv(x, y) == RatMul(x, Rat(y.d, y.n))

BODY_RADIUS == 6372
NAUTICAL_MILE == Rat(1852, 1000)
STATUTE_MILE == Rat(1609, 1000)

UnitNames == {"metric", "imperial", "US customary", "nautical"}

\* The nautical mile left unscaled
UnitLengthNauticalUnscaled(format) ==
    IF format \in {"imperial", "US customary"} THEN STATUTE_MILE ELSE Rat(1, 1)

\* The length in kilometres of the unit the format branches scale by
UnitLength(format) ==
    IF format = "metric" THEN Rat(1, 1)
    ELSE IF format \in {"imperial", "US customary"} THEN STATUTE_MILE
    ELSE NAUTICAL_MILE

angle_to_distance(a, format) ==
    LET distance == RatMul(a, Rat(BODY_RADIUS, 1))
    IN  IF format \in UnitNames
        THEN [exc |-> "none", value |-> RatDiv(distance, UnitLength(format))]
        ELSE [exc |-> "ValueError", value |-> Rat(0, 1)]

distance_to_angle(distance, format) ==
    IF format \in UnitNames
    THEN [exc |-> "none",
          value |-> RatDiv(RatMul(distance, UnitLength(format)), Rat(BODY_RADIUS, 1))]
    ELSE [exc |-> "ValueError", value |-> Rat(0, 1)]

----------------------------------------------------------------------------
(* The conversion session of distances: one call of angle_to_distance      *)
(* whose distance, when it returns one, is handed to distance_to_angle in  *)
(* the same unit system; or one call of distance_to_angle on a distance of *)
(* the caller's.                                                           *)

AngleFractions ==
    { Rat(n, d) : n \in {-180, -45, 0, 1, 7, 90, 180}, d \in {1, 4, 1000} }
    \cup { Rat(1519, 1000), Rat(-2594, 100) }

DistanceFractions ==
    { Rat(n, d) : n \in {-5, 0, 169, 1557, 1792, 2884}, d \in {1, 2} }

UnitInputs == UnitNames \cup {"Metric", "furlongs"}

InitUnits == pc = "start" /\ LocInit /\ BakenIdle /\ DmsIdle /\ RestIdle

\* distance = angle_to_distance(angle, format)
AngleToDistance ==
    /\ pc = "start"
    /\ \E a \in AngleFractions, format \in UnitInputs :
          /\ unitsCall' = [x |-> a, format |-> format]
          /\ distanceOut' = angle_to_distance(a, format)
    /\ pc' = "distance"
    /\ UNCHANGED <<angleOut, notUnitsVars>>

\* distance_to_angle(distance, format) of the distance just returned
DistanceToAngleOfDistance ==
    /\ pc = "distance"
    /\ distanceOut.exc = "none"
    /\ angleOut' = distance_to_angle(distanceOut.value, unitsCall.format)
    /\ pc' = "angleback"
    /\ UNCHANGED <<unitsCall, distanceOut, notUnitsVars>>

\* distance_to_angle(distance, format) of a distance of the caller's
DistanceToAngle ==
    /\ pc = "start"
    /\ \E x \in DistanceFractions, format \in UnitInputs :
          /\ unitsCall' = [x |-> x, format |-> format]
          /\ angleOut' = distance_to_angle(x, format)
    /\ pc' = "angle"
    /\ UNCHANGED <<distanceOut, notUnitsVars>>

NextUnits == AngleToDistance \/ DistanceToAngleOfDistance \/ DistanceToAngle

SpecUnits == InitUnits /\ [][NextUnits]_vars

----------------------------------------------------------------------------
(* Claim about the unit systems *)

\* The metric distance of an angle, and the metric distance an angle is of
MetricOf(a) == RatMul(a, Rat(BODY_RADIUS, 1))

\* C18: the imperial value (also selected by 'US customary') is the metric
\* value divided by 1.609, the nautical value is the metric value divided by
\* 1.852 and the metric value is unscaled, in both directions;
\* distance_to_angle(angle_to_distance(a, u), u) = a for each of these unit
\* systems; any other unit name is a ValueError.
C18_UnitsScaleByFixedConstants ==
    LET u == unitsCall.format
        known == u \in {"metric", "imperial", "US customary", "nautical"}
        km(x) == IF u = "metric" THEN x
                 ELSE IF u = "nautical" THEN RatMul(x, Rat(1852, 1000))
                 ELSE RatMul(x, Rat(1609, 1000))
    IN  /\ pc \in {"distance", "angleback"} =>
              /\ ~known => distanceOut.exc = "ValueError"
              /\ known => /\ distanceOut.exc = "none"
                          /\ km(distanceOut.value) = MetricOf(unitsCall.x)
        /\ pc = "angleback" => (angleOut.exc = "none" /\ angleOut.value = unitsCall.x)
        /\ pc = "angle" =>
              /\ ~known => angleOut.exc = "ValueError"
              /\ known => /\ angleOut.exc = "none"
                          /\ MetricOf(angleOut.value) = km(unitsCall.x)

\* An angle taken to nautical miles and back
C18_Witness ==
    /\ pc = "angleback"
    /\ unitsCall = [x |-> Rat(1519, 1000), format |-> "nautical"]
    /\ RatMul(distanceOut.value, Rat(1852, 1000)) = Rat(1519 * 1593, 250)
    /\ angleOut.value = Rat(1519, 1000)

----------------------------------------------------------------------------
(* Point.__init__ and Cell.__init__.  The Point class is described in the  *)
(* specification and exercised by the tests; Cell is a Point with the      *)
(* fields of a cell tower.  Angles are in units of 1/UnitsPerDegree of a   *)
(* degree or, in radians mode, of a radian.                                *)

\* A latitude or longitude argument: a number, or a (degrees, minutes,
\* seconds) triple, its minutes kept in sixtieths as to_dd takes them
Number(v) == [kind |-> "number", v |-> v, t |-> <<>>]
Triple(d, m, sec) == [kind |-> "triple", v |-> 0, t |-> <<d, 60 * m, sec>>]

NoPoint ==
    [exists |-> FALSE, class |-> "none", _latitude |-> 0, _longitude |-> 0,
     _rad_latitude |-> 0, _rad_longitude |-> 0, units |-> "metric",
     _angle |-> "degrees", timezone |-> 0, ident |-> 0]

\* math.degrees in fixed point, pi taken as 355/113
Degrees(r) == PyInt(r * 113 * 180, 355)

\* The degrees an argument stands for: to_dd of a triple, math.degrees of a
\* number in radians mode, the number itself in degrees mode (to_dd counts
\* arcseconds, 3600 to the degree: the factor is reduced by 1200)
ResultingDegrees(arg, mode) ==
    IF arg.kind = "triple" THEN PyInt(to_dd(arg.t) * (UnitsPerDegree \div 1200), 3)
    ELSE IF mode = "radians" THEN Degrees(arg.v)
    ELSE arg.v

\* Point.__init__(latitude, longitude, units, angle)
PointConstruct(lat, lon, units, mode) ==
    LET la == ResultingDegrees(lat, mode)
        lo == ResultingDegrees(lon, mode)
    IN  IF mode \notin {"degrees", "radians"}
        THEN [exc |-> "ValueError", msg |-> "Unknown angle type", self |-> NoPoint]
        ELSE IF ~(-90 * UnitsPerDegree <= la /\ la <= 90 * UnitsPerDegree)
        THEN [exc |-> "ValueError", msg |-> "Invalid latitude value", self |-> NoPoint]
        ELSE IF ~(-180 * UnitsPerDegree <= lo /\ lo <= 180 * UnitsPerDegree)
        THEN [exc |-> "ValueError", msg |-> "Invalid longitude value", self |-> NoPoint]
        ELSE IF units \notin {"metric", "imperial", "nautical"}
        THEN [exc |-> "ValueError", msg |-> "Unknown units type", self |-> NoPoint]
        ELSE [exc |-> "none", msg |-> "",
              self |-> [exists |-> TRUE, class |-> "Point",
                        _latitude |-> la, _longitude |-> lo,
                        _rad_latitude |-> Radians(la), _rad_longitude |-> Radians(lo),
                        units |-> units, _angle |-> mode, timezone |-> 0,
                        ident |-> 0]]

\* A Cell whose fields are set without the Point constructor having run
CellInitUnchecked(ident, lat, lon) ==
    [exc |-> "none", msg |-> "",
     self |-> [exists |-> TRUE, class |-> "Cell",
               _latitude |-> lat.v, _longitude |-> lon.v,
               _rad_latitude |-> Radians(lat.v), _rad_longitude |-> Radians(lon.v),
               units |-> "metric", _angle |-> "degrees", timezone |-> 0,
               ident |-> ident]]

\* Cell.__init__(ident, latitude, longitude, ...): the Point constructor with
\* its default units and angle mode, then the cell's own fields
CellInit(ident, lat, lon) ==
    LET super == PointConstruct(lat, lon, "metric", "degrees")
    IN  IF super.exc # "none" THEN super
        ELSE [super EXCEPT !.self.class = "Cell", !.self.ident = ident]

----------------------------------------------------------------------------
(* The construction session: one call of the Point constructor or of the   *)
(* Cell constructor.                                                       *)

\* Arguments in degrees, and triples
DegreeLatitudeInputs ==
    { Number(Deg(52, 15)), Number(0), Number(90 * UnitsPerDegree),
      Number(-90 * UnitsPerDegree), Number(-92 * UnitsPerDegree), Number(Deg(90, 1)),
      Triple(50, 20, 10), Triple(95, 0, 0) }

DegreeLongitudeInputs ==
    { Number(-Deg(0, 221)), Number(180 * UnitsPerDegree), Number(185 * UnitsPerDegree),
      Number(-180 * UnitsPerDegree - 1), Triple(-1, -3, -12) }

\* Arguments in radians: about pi/4, pi/2 and pi, and 2 and 4 radians
RadianLatitudeInputs ==
    { Number(Deg(0, 785)), Number(-Deg(1, 570)), Number(2 * UnitsPerDegree) }

RadianLongitudeInputs ==
    { Number(Deg(1, 571)), Number(-Deg(3, 141)), Number(4 * UnitsPerDegree) }

UnitsInputs == {"metric", "imperial", "nautical", "None", "furlongs"}

AngleModeInputs == {"degrees", "radians", "None", "gradians"}

IdentInputs == {4, 7}

InitNew == pc = "start" /\ LocInit /\ BakenIdle /\ DmsIdle /\ RestIdle

\* Point(latitude, longitude, units, angle)
NewPoint ==
    /\ pc = "start"
    /\ \E mode \in AngleModeInputs, units \in UnitsInputs :
       \E lat \in (IF mode = "radians" THEN RadianLatitudeInputs
                   ELSE DegreeLatitudeInputs),
          lon \in (IF mode = "radians" THEN RadianLongitudeInputs
                   ELSE DegreeLongitudeInputs) :
          LET new == PointConstruct(lat, lon, units, mode)
          IN  /\ newCall' = [class |-> "Point", latitude |-> lat, longitude |-> lon,
                             units |-> units, angle |-> mode, ident |-> 0]
              /\ built' = new.self
              /\ newRaised' = new.exc
    /\ pc' = "point"
    /\ UNCHANGED notNewVars

\* Cell(ident, latitude, longitude, ...)
NewCell ==
    /\ pc = "start"
    /\ \E ident \in IdentInputs, lat \in DegreeLatitudeInputs,
          lon \in DegreeLongitudeInputs :
          LET new == CellInit(ident, lat, lon)
          IN  /\ newCall' = [class |-> "Cell", latitude |-> lat, longitude |-> lon,
                             units |-> "metric", angle |-> "degrees", ident |-> ident]
              /\ built' = new.self
              /\ newRaised' = new.exc
    /\ pc' = "cell"
    /\ UNCHANGED notNewVars

NextNew == NewPoint \/ NewCell

SpecNew == InitNew /\ [][NextNew]_vars

----------------------------------------------------------------------------
(* Claim about construction *)

LatitudeInRange(x) == -90 * UnitsPerDegree <= x /\ x <= 90 * UnitsPerDegree
LongitudeInRange(x) == -180 * UnitsPerDegree <= x /\ x <= 180 * UnitsPerDegree

\* C19: constructing a point fails with a ValueError when the resulting
\* latitude is outside [-90, 90] or the resulting longitude is outside
\* [-180, 180], and when the angle mode or the unit system is not a known
\* one; no object exists after a failed construction, and every
\* constructed point has its latitude and longitude inside those ranges.
C19_ConstructionValidates ==
    pc \in {"point", "cell"} =>
        LET knownMode == newCall.angle \in {"degrees", "radians"}
            knownUnits == newCall.units \in {"metric", "imperial", "nautical"}
            la == ResultingDegrees(newCall.latitude, newCall.angle)
            lo == ResultingDegrees(newCall.longitude, newCall.angle)
        IN  /\ ~knownMode => newRaised = "ValueError"
            /\ ~knownUnits => newRaised = "ValueError"
            /\ (knownMode /\ ~(LatitudeInRange(la) /\ LongitudeInRange(lo))) =>
                  newRaised = "ValueError"
            /\ newRaised # "none" => ~built.exists
            /\ built.exists =>
                  /\ newRaised = "none"
                  /\ LatitudeInRange(built._latitude)
                  /\ LongitudeInRange(built._longitude)

\* A cell tower at latitude -92: the constructor fails and leaves no object
C19_Witness ==
    /\ pc = "cell"
    /\ newCall.latitude = Number(-92 * UnitsPerDegree)
    /\ newRaised = "ValueError"
    /\ ~built.exists

----------------------------------------------------------------------------
(* Points and KeyedPoints.  The classes are described in the specification *)
(* and exercised by the tests.  A member is a position, (latitude,         *)
(* longitude) in thousandths of a degree.  The members of a Points are a   *)
(* sequence of positions and the members of a KeyedPoints are a sequence   *)
(* of (key, position) pairs with distinct keys, in the order they were     *)
(* given.  The value of an operation on two points is not computed: a      *)
(* result records the operation and the two points it was applied to.      *)

\* Largest number of members of a collection
MaxPoints == 3

\* The positions of TestPoints.setUp and TestKeyedPoints.setUp
Positions == { <<52015, -221>>, <<52168, 40>>, <<52855, 657>> }

Keys == {"home", "Carol", "Kenny", "Stan"}

PairwiseOperations == {"distance", "bearing", "final_bearing", "inverse", "midpoint"}

\* Points(points)
PointsInit(points) == [class |-> "Points", members |-> points]

\* KeyedPoints(items)
KeyedPointsInit(items) == [class |-> "KeyedPoints", members |-> items]

\* The point of a key
PointOf(items, key) == LET i == CHOOSE j \in 1..Len(items) : items[j][1] = key
                       IN  items[i][2]

\* The points a pairwise operation walks along: the members of a Points in
\* their order, the points of the keys of the order tuple of a KeyedPoints
Walk(c, order) ==
    IF c.class = "Points" THEN c.members
    ELSE [i \in 1..Len(order) |-> PointOf(c.members, order[i])]

\* Every point paired with the first
PairsWithFirst(points) ==
    [i \in 1..(IF Len(points) = 0 THEN 0 ELSE Len(points) - 1) |->
        <<points[1], points[i + 1]>>]

\* The consecutive pairs of a sequence of points
Pairs(points) ==
    [i \in 1..(IF Len(points) = 0 THEN 0 ELSE Len(points) - 1) |->
        <<points[i], points[i + 1]>>]

\* A pairwise operation: op(a, b) for every consecutive pair
Pairwise(c, op, order) ==
    LET pairs == Pairs(Walk(c, order))
    IN  [i \in 1..Len(pairs) |-> [op |-> op, a |-> pairs[i][1], b |-> pairs[i][2]]]

\* list(collection): the members, in their order
Members(c) == c.members

ElementwiseOperations ==
    {"destination", "sunrise", "sunset", "sun_events", "to_grid_locator"}

\* A position of the collections, thousandths of a degree, in the units of
\* the locator functions
LocatorUnits(thousandths) == thousandths * (UnitsPerDegree \div 1000)

\* op(point, arg): the locator for to_grid_locator; of the other
\* operations only what they were applied to is kept
Apply(op, point, arg) ==
    [op |-> op, of |-> point,
     value |-> IF op = "to_grid_locator"
               THEN to_grid_locator(LocatorUnits(point[1]), LocatorUnits(point[2]), arg).value
               ELSE <<>>]

\* Every result computed from the first member
ElementFirst(points, i) == points[1]

\* The member the i-th result is computed from
ElementOf(points, i) == points[i]

\* An element-wise operation called without a key tuple: op(member, arg)
\* for every member.  A Points yields the results in member order; a
\* KeyedPoints pairs each with its key, in the order `order' in which the
\* dictionary hands out its keys.
Elementwise(c, op, arg, order) ==
    LET points == Walk(c, order)
    IN  [i \in 1..Len(points) |->
            IF c.class = "KeyedPoints"
            THEN <<order[i], Apply(op, ElementOf(points, i), arg)>>
            ELSE Apply(op, ElementOf(points, i), arg)]

----------------------------------------------------------------------------
(* The collection session: a Points or a KeyedPoints is constructed; then  *)
(* pairwise operations are called on it and it is traversed, in any order  *)
(* and any number of times.                                                *)

\* The position each key stands for
Directory(key) ==
    IF key = "home" THEN <<52015, -221>>
    ELSE IF key = "Carol" THEN <<52168, 40>>
    ELSE IF key = "Kenny" THEN <<52855, 657>>
    ELSE <<52168, 40>>

\* The sequences of distinct elements of a set, up to a length
DistinctSeqs(S, n) ==
    UNION { { f \in [1..k -> S] : \A i, j \in 1..k : f[i] = f[j] => i = j } : k \in 0..n }

PointsInputs == UNION { [1..k -> Positions] : k \in 0..MaxPoints }

KeyedPointsInputs ==
    { [i \in 1..Len(ks) |-> <<ks[i], Directory(ks[i])>>] : ks \in DistinctSeqs(Keys, MaxPoints) }

\* The key tuples that name every key of a collection once
Orders(c) ==
    IF c.class = "Points" THEN {<<>>}
    ELSE { o \in DistinctSeqs({ c.members[i][1] : i \in 1..Len(c.members) }, Len(c.members)) :
             Len(o) = Len(c.members) }

InitLocs == pc = "start" /\ LocInit /\ BakenIdle /\ DmsIdle /\ RestIdle

\* locs = Points(points)
NewPoints ==
    /\ pc = "start"
    /\ \E points \in PointsInputs : locs' = PointsInit(points)
    /\ pc' = "made"
    /\ UNCHANGED <<pairCall, pairOut, eachCall, eachOut, walked, notLocsVars>>

\* locs = KeyedPoints(items)
NewKeyedPoints ==
    /\ pc = "start"
    /\ \E items \in KeyedPointsInputs : locs' = KeyedPointsInit(items)
    /\ pc' = "made"
    /\ UNCHANGED <<pairCall, pairOut, eachCall, eachOut, walked, notLocsVars>>

\* list(locs.distance()), list(locs.bearing(order)), ...
PairwiseOperation ==
    /\ pc \in {"made", "paired", "walked"}
    /\ \E op \in PairwiseOperations, order \in Orders(locs) :
          /\ pairCall' = [op |-> op, order |-> order]
          /\ pairOut' = Pairwise(locs, op, order)
    /\ pc' = "paired"
    /\ UNCHANGED <<locs, eachCall, eachOut, walked, notLocsVars>>

\* list(locs)
Traverse ==
    /\ pc \in {"made", "paired", "walked", "mapped"}
    /\ walked' = Members(locs)
    /\ pc' = "walked"
    /\ UNCHANGED <<locs, pairCall, pairOut, eachCall, eachOut, notLocsVars>>

NextLocs == NewPoints \/ NewKeyedPoints \/ PairwiseOperation \/ Traverse

SpecLocs == InitLocs /\ [][NextLocs]_vars

----------------------------------------------------------------------------
(* The element-wise session: a Points or a KeyedPoints is constructed;     *)
(* then element-wise operations are called on it and it is traversed, in   *)
(* any order and any number of times.                                      *)

\* The arguments an element-wise operation is called with
ArgInputs(op) ==
    IF op = "to_grid_locator" THEN {"extsquare", "subsquare"} ELSE {"none"}

InitEach == pc = "start" /\ LocInit /\ BakenIdle /\ DmsIdle /\ RestIdle

\* list(locs.destination(...)), list(locs.to_grid_locator(precision)), ...
\* For a KeyedPoints, order is the order in which the dictionary iterates:
\* any.
ElementwiseOperation ==
    /\ pc \in {"made", "walked", "mapped"}
    /\ \E op \in ElementwiseOperations, order \in Orders(locs) :
          \E arg \in ArgInputs(op) :
              /\ eachCall' = [op |-> op, arg |-> arg]
              /\ eachOut' = Elementwise(locs, op, arg, order)
    /\ pc' = "mapped"
    /\ UNCHANGED <<locs, pairCall, pairOut, walked, notLocsVars>>

NextEach == NewPoints \/ NewKeyedPoints \/ ElementwiseOperation \/ Traverse

SpecEach == InitEach /\ [][NextEach]_vars

----------------------------------------------------------------------------
(* Claim about the pairwise operations *)

\* The i-th point of the collection, in sequence order or in the order of
\* the key tuple
Member(i) ==
    IF locs.class = "Points" THEN locs.members[i]
    ELSE LET at == CHOOSE j \in 1..Len(locs.members) :
                        locs.members[j][1] = pairCall.order[i]
         IN  locs.members[at][2]

PairwiseInOrder ==
    (pc = "paired" /\ Len(locs.members) >= 1) =>
        /\ Len(pairOut) = Len(locs.members) - 1
        /\ \A i \in 1..(Len(locs.members) - 1) :
              pairOut[i] = [op |-> pairCall.op, a |-> Member(i), b |-> Member(i + 1)]

TraversedWhole == pc = "walked" => walked = locs.members

\* C20: for a collection of N points each pairwise operation returns
\* exactly N-1 results, the i-th being the operation applied to members i
\* and i+1 in sequence order (for the keyed collection: in the order of the
\* key tuple supplied); the collection is unchanged by the operation and a
\* traversal after it meets every member again.
C20_PairwiseOverConsecutiveMembers ==
    /\ [](PairwiseInOrder /\ TraversedWhole)
    /\ [][pc # "start" => locs' = locs]_vars

\* The bearings of TestKeyedPoints, asked for in the order Kenny, home, Carol
C20_Witness ==
    /\ pc = "paired"
    /\ locs.class = "KeyedPoints"
    /\ Len(locs.members) = 3
    /\ pairCall = [op |-> "bearing", order |-> <<"Kenny", "home", "Carol">>]
    /\ pairOut = << [op |-> "bearing", a |-> <<52855, 657>>, b |-> <<52015, -221>>],
                    [op |-> "bearing", a |-> <<52015, -221>>, b |-> <<52168, 40>>] >>
    /\ walked = locs.members

----------------------------------------------------------------------------
(* Further claims about the Baken object *)

\* C23: constructing a Baken with latitude None takes the position from
\* the locator: when a locator is given the object's latitude and longitude
\* are from_grid_locator(locator), and when the locator is None too the
\* construction fails with LookupError and no object is created.
C23_PositionFromLocatorOrLookupError ==
    (pc \in {"constructed", "failed"} /\ bakenCall.latitude.none) =>
        LET p == from_grid_locator(bakenCall.locator.s)
        IN  /\ bakenCall.locator.none =>
                  (raised = "LookupError" /\ ~baken.exists)
            /\ (~bakenCall.locator.none /\ p.exc = "none") =>
                  /\ raised = "none"
                  /\ baken.exists
                  /\ baken._latitude = p.latitude
                  /\ baken._longitude = p.longitude
                  /\ baken._locator = bakenCall.locator
            /\ (~bakenCall.locator.none /\ p.exc # "none") =>
                  (raised = p.exc /\ ~baken.exists)

\* Baken(None, None, locator="IO93BF")
C23_Witness ==
    /\ pc = "constructed"
    /\ bakenCall.latitude.none
    /\ bakenCall.longitude.none
    /\ bakenCall.locator = String(Str(<<"I", "O", "9", "3", "B", "F">>))
    /\ baken.exists
    /\ baken._latitude = 53 * UnitsPerDegree + 2750
    /\ baken._longitude = -2 * UnitsPerDegree + 1500

----------------------------------------------------------------------------
(* Further claims about the locator functions *)

\* C24: to_grid_locator fails with ValueError, returning no locator, when
\* the precision is not one of square, subsquare and extsquare, when the
\* latitude is outside [-90, 90] or when the longitude is outside
\* [-180, 180]; the precision check is made first, and a call with none of
\* these faults returns a locator.
C24_RefusesBadArguments ==
    pc = "encoded" =>
        LET badPrecision == precision \notin {"square", "subsquare", "extsquare"}
            badLatitude == latitude < -90 * UnitsPerDegree
                           \/ latitude > 90 * UnitsPerDegree
            badLongitude == longitude < -180 * UnitsPerDegree
                            \/ longitude > 180 * UnitsPerDegree
        IN  /\ (badPrecision \/ badLatitude \/ badLongitude) =>
                  (locator.exc = "ValueError" /\ locator.value = <<>>)
            /\ badPrecision => locator.msg = "Unsupported precision value"
            /\ (~badPrecision /\ badLatitude) =>
                  locator.msg = "Invalid latitude value"
            /\ (~badPrecision /\ ~badLatitude /\ badLongitude) =>
                  locator.msg = "Invalid longitude value"
            /\ ~(badPrecision \/ badLatitude \/ badLongitude) =>
                  locator.exc = "none"

\* to_grid_locator(-92, 185, "field"): all three faults, the precision's is
\* the one reported
C24_Witness ==
    /\ pc = "encoded"
    /\ precision = "field"
    /\ latitude = -92 * UnitsPerDegree
    /\ longitude = 185 * UnitsPerDegree
    /\ locator = LocatorRaised("ValueError", "Unsupported precision value")

\* L with its subsquare letters in lower case
LowerSubsquare(L) ==
    [i \in 1..Len(L) |-> IF i \in {5, 6} THEN lower(L[i]) ELSE L[i]]

\* C27: for every valid locator L of 4, 6 or 8 characters,
\* to_grid_locator(*from_grid_locator(L)) at the precision matching the
\* length of L returns L again, its subsquare letters in lower case: the
\* decoded point lies inside the cell that L names.
C27_DecodedPointEncodesToItsLocator ==
    pc = "reencoded" =>
        /\ Len(text) \in {4, 6, 8}
        /\ locator = LocatorReturned(LowerSubsquare(text))

\* 'JN44FH55' comes back as 'JN44fh55'
C27_Witness ==
    /\ pc = "reencoded"
    /\ text = Str(<<"J", "N", "4", "4", "F", "H", "5", "5">>)
    /\ locator.value = Str(<<"J", "N", "4", "4", "f", "h", "5", "5">>)

\* 'RR99' comes back as 'RR99'
C27_WitnessSquare ==
    /\ pc = "reencoded"
    /\ text = Str(<<"R", "R", "9", "9">>)
    /\ locator.value = text

----------------------------------------------------------------------------
(* Further claims about the sexagesimal and ISO 6709 functions *)

\* C28: to_dms returns a tuple for every angle in [-180, 180], exactly 0
\* included (so that to_iso6709 in its dm and dms formats returns a string
\* for every latitude and longitude in range).
C28_ToDmsReturnsForEveryAngle ==
    (pc = "split" /\ style \in {"dms", "dm"}
        /\ -180 * TicksPerDegree <= angle /\ angle <= 180 * TicksPerDegree) =>
        /\ dms.exc = "none"
        /\ Len(dms.value) = (IF style = "dms" THEN 3 ELSE 2)

\* The same coordinates with the sign of the latitude and of the longitude
\* field exchanged for the other
Mirrored(s) ==
    LET second == Len(Groups(s).latitude) + 1
        other(c) == IF c = 43 THEN 45 ELSE 43
    IN  [i \in 1..Len(s) |-> IF i \in {1, second} THEN other(s[i]) ELSE s[i]]

\* C29: from_iso6709 is sign-symmetric: a latitude or longitude field in
\* the degrees-minutes or degrees-minutes-seconds form reads, with the
\* other sign in front of the same digits, as the negation of its value.
C29_SignSymmetricFields ==
    (pc = "isoparsed" /\ isoParsed.exc = "none") =>
        LET fields == Groups(isoInput)
            mirror == from_iso6709(Mirrored(isoInput))
        IN  /\ mirror.exc = "none"
            /\ HeadLength(fields.latitude) \in {5, 7} =>
                  mirror.latitude = -isoParsed.latitude
            /\ HeadLength(fields.longitude) \in {6, 8} =>
                  mirror.longitude = -isoParsed.longitude

----------------------------------------------------------------------------
(* A further claim about sun_rise_set *)

\* C30: whenever the event occurs (the cosine of the hour angle is in
\* [-1, 1]) sun_rise_set returns a time of day with its hour in 0..23 and
\* its minute in 0..59, and the conversion to hour and minute never fails,
\* whatever the computed local time is.
C30_AlwaysATimeOfDay ==
    (pc \in {"sunrise", "sunzone"} /\ KnownCall /\ ~OutsideUnit(sunCall.cosH)) =>
        /\ LastSun.exc = "none"
        /\ ~LastSun.none
        /\ LastSun.hour \in 0..23
        /\ LastSun.minute \in 0..59

----------------------------------------------------------------------------
(* Claim about the element-wise operations of the collections *)

\* What the operation of the last element-wise call gives for one point
\* taken alone
Alone(point) == Apply(eachCall.op, point, eachCall.arg)

\* C21: for a collection of N points each element-wise operation
\* (destination, sunrise, sunset, sun_events, to_grid_locator) returns
\* exactly N results, one per member and what the operation gives for that
\* member alone; for the ordered collection they are in member order, and
\* for the keyed collection called without a key tuple each result is
\* paired with the key of the member it was computed from.
C21_OneResultPerMember ==
    pc = "mapped" =>
        LET N == Len(locs.members)
        IN  /\ Len(eachOut) = N
            /\ locs.class = "Points" =>
                  \A i \in 1..N : eachOut[i] = Alone(locs.members[i])
            /\ locs.class = "KeyedPoints" =>
                  \A j \in 1..N :
                      Cardinality({ i \in 1..N :
                          eachOut[i] = <<locs.members[j][1], Alone(locs.members[j][2])>> }) = 1

\* TestKeyedPoints.test_to_grid_locator: three locators, each with its key
C21_Witness ==
    /\ pc = "mapped"
    /\ locs.class = "KeyedPoints"
    /\ eachCall = [op |-> "to_grid_locator", arg |-> "extsquare"]
    /\ { <<eachOut[i][1], eachOut[i][2].value>> : i \in 1..Len(eachOut) }
          = { <<"Carol", Str(<<"J", "O", "0", "2", "a", "e", "4", "0">>)>>,
              <<"Kenny", Str(<<"J", "O", "0", "2", "h", "u", "8", "5">>)>>,
              <<"home", Str(<<"I", "O", "9", "2", "v", "a", "3", "3">>)>> }

\* TestPoints.test_to_grid_locator: three locators in member order
C21_WitnessOrdered ==
    /\ pc = "mapped"
    /\ locs = PointsInit(<< <<52015, -221>>, <<52168, 40>>, <<52855, 657>> >>)
    /\ eachCall.op = "to_grid_locator" /\ eachCall.arg = "subsquare"
    /\ [i \in 1..3 |-> eachOut[i].value]
          = << Str(<<"I", "O", "9", "2", "v", "a">>),
               Str(<<"J", "O", "0", "2", "a", "e">>),
               Str(<<"J", "O", "0", "2", "h", "u">>) >>

----------------------------------------------------------------------------
(* Point.bearing(other, format): the compass name of a bearing.  The       *)
(* bearing itself, a number of degrees in [0, 360), is taken as given, in  *)
(* hundredths of a degree.                                                 *)

UnitsPerBearingDegree == 10 * 10

\* The sixteen points of the compass rose, clockwise from North
COMPASS_NAMES ==
    << "North", "North-north-east", "North-east", "East-north-east",
       "East", "East-south-east", "South-east", "South-south-east",
       "South", "South-south-west", "South-west", "West-south-west",
       "West", "West-north-west", "North-west", "North-north-west" >>

\* The number of segments Point.bearing names a bearing with:
\* Point(52.015, -0.221).bearing(Point(52.6333, -2.5), format="string"),
\* a bearing of 294 degrees, is 'North-west'
BearingSegments == 8

\* The name of the segment the angle has entered, not of the nearest one
angle_to_name_Truncating(a, segments) ==
    LET width == (360 * UnitsPerBearingDegree) \div segments
    IN  COMPASS_NAMES[((a \div width) % segments) * (16 \div segments) + 1]

\* The name of the nearest of `segments' equally spaced points of the rose
angle_to_name(a, segments) ==
    LET width == (360 * UnitsPerBearingDegree) \div segments
    IN  COMPASS_NAMES[(((a + width \div 2) \div width) % segments) * (16 \div segments) + 1]

\* The last step of Point.bearing: the bearing as the format asks for it
BearingAs(b, format) ==
    IF format = "numeric" THEN [exc |-> "none", name |-> "", value |-> b]
    ELSE IF format = "string"
    THEN [exc |-> "none", name |-> angle_to_name(b, BearingSegments), value |-> 0]
    ELSE [exc |-> "ValueError", name |-> "", value |-> 0]

----------------------------------------------------------------------------
(* The bearing session: one call of Point.bearing *)

\* Number of steps of the grid of sampled bearings
NBearings == 160

BearingInputs ==
    { (360 * UnitsPerBearingDegree * k) \div NBearings : k \in 0..(NBearings - 1) }
    \cup { 29434, 11311, 27472, 7612 }
    \cup { 1124, 1125, 1126, 2249, 2250, 2251, 3374, 3375, 3376,
           33749, 33750, 33751, 34874, 34875, 34876, 35999 }

BearingFormatInputs == {"numeric", "string", "compass"}

InitBearing == pc = "start" /\ LocInit /\ BakenIdle /\ DmsIdle /\ RestIdle

\* self.bearing(other, format) for two points with the bearing b
Bearing ==
    /\ pc = "start"
    /\ \E b \in BearingInputs, format \in BearingFormatInputs :
          /\ bearingCall' = [bearing |-> b, format |-> format]
          /\ bearingOut' = BearingAs(b, format)
    /\ pc' = "bearing"
    /\ UNCHANGED notBearVars

NextBearing == Bearing

SpecBearing == InitBearing /\ [][NextBearing]_vars

----------------------------------------------------------------------------
(* Claim about the compass name of a bearing *)

\* The direction of a point of the rose, in hundredths of a degree
Direction(name) ==
    LET i == CHOOSE j \in 1..16 : COMPASS_NAMES[j] = name
    IN  (i - 1) * ((360 * UnitsPerBearingDegree) \div 16)

\* The angle between two directions
Apart(a, b) ==
    LET d == (a - b + 360 * UnitsPerBearingDegree) % (360 * UnitsPerBearingDegree)
    IN  IF 2 * d > 360 * UnitsPerBearingDegree
        THEN 360 * UnitsPerBearingDegree - d ELSE d

IsName(n) == \E j \in 1..16 : COMPASS_NAMES[j] = n

\* The eight principal points
IsPrincipalName(n) == \E j \in 1..8 : COMPASS_NAMES[2 * j - 1] = n

----------------------------------------------------------------------------
(* Bakens.import_baken_file.  A file is the sequence of its sections, each *)
(* with the options that bear on whether and where a Baken is made: its    *)
(* latitude and longitude (numbers, when present), its locator (a string,  *)
(* when present) and whether it has an operator option.  The section       *)
(* titles are distinct and are written as numbers.                         *)

Section(title, lat, lon, loc, op) ==
    [name |-> title, latitude |-> lat, longitude |-> lon, locator |-> loc,
     operator |-> op]

IsUpper(c) == 65 <= c /\ c <= 90

\* valid_locator.match(s) for valid_locator = "[A-Z]{2}[0-9]{2}[A-Z]{2}":
\* the pattern is looked for at the start of the string
ValidLocatorMatch(s) ==
    /\ Len(s) >= 6
    /\ IsUpper(s[1]) /\ IsUpper(s[2])
    /\ IsDigit(s[3]) /\ IsDigit(s[4])
    /\ IsUpper(s[5]) /\ IsUpper(s[6])

\* The test that skips a section: elements["latitude"] is None and not
\* valid_locator.match(elements["locator"]), where matching None is a
\* TypeError
NoLocation(section) ==
    IF ~section.latitude.none THEN [exc |-> "none", skip |-> FALSE]
    ELSE IF section.locator.none THEN [exc |-> "TypeError", skip |-> FALSE]
    ELSE [exc |-> "none", skip |-> ~ValidLocatorMatch(section.locator.s)]

\* One turn of the loop over data.sections(): the exception it raises, or
\* whether it skips the section, or the Baken it stores
ImportSection(section) ==
    LET test == NoLocation(section)
        made == BakenInit(section.latitude, section.longitude, section.locator)
    IN  IF section.operator
        THEN [exc |-> "KeyError", skip |-> FALSE, self |-> NoObject]
        ELSE IF test.exc # "none"
        THEN [exc |-> test.exc, skip |-> FALSE, self |-> NoObject]
        ELSE IF test.skip
        THEN [exc |-> "none", skip |-> TRUE, self |-> NoObject]
        ELSE [exc |-> made.exc, skip |-> FALSE, self |-> made.self]

\* The loop from its i-th turn on, the collection holding entries
RECURSIVE ImportSections(_, _, _)
ImportSections(sections, i, entries) ==
    IF i > Len(sections) THEN [exc |-> "none", entries |-> entries]
    ELSE LET turn == ImportSection(sections[i])
         IN  IF turn.exc # "none" THEN [exc |-> turn.exc, entries |-> entries]
             ELSE IF turn.skip THEN ImportSections(sections, i + 1, entries)
             ELSE ImportSections(sections, i + 1,
                      { e \in entries : e.name # sections[i].name }
                      \cup { [name |-> sections[i].name, baken |-> turn.self] })

\* Bakens().import_baken_file(baken_file)
import_baken_file(sections) == ImportSections(sections, 1, {})

----------------------------------------------------------------------------
(* The baken file session: one file is imported into an empty Bakens *)

\* Most sections of a file
MaxSections == 3

\* What a section can hold: the sections of the documented file, a section
\* without location data, sections whose locator is not of the pattern, a
\* section with an operator, and sections of which no Baken can be made
SectionBodies ==
    { <<Some(Deg(14, 460)), Some(Deg(20, 680)), NoString, FALSE>>,
      <<None, None, String(Str(<<"I", "O", "9", "3", "B", "F">>)), FALSE>>,
      <<None, None, String(Str(<<"J", "N", "4", "4", "F", "H">>)), FALSE>>,
      <<None, None, NoString, FALSE>>,
      <<None, None, String(Str(<<"I", "O", "9">>)), FALSE>>,
      <<None, None, String(Str(<<"i", "o", "9", "3", "b", "f">>)), FALSE>>,
      <<Some(Deg(53, 229)), Some(-Deg(1, 875)), NoString, TRUE>>,
      <<None, None, String(Str(<<"Z", "Z", "0", "0", "Z", "Z">>)), FALSE>>,
      <<Some(Deg(14, 460)), None, NoString, FALSE>> }

BakenFileInputs ==
    UNION { { [i \in 1..k |-> Section(i, f[i][1], f[i][2], f[i][3], f[i][4])] :
                f \in [1..k -> SectionBodies] } : k \in 0..MaxSections }

InitFile == pc = "start" /\ LocInit /\ BakenIdle /\ DmsIdle /\ RestIdle

ImportBakenFile ==
    /\ pc = "start"
    /\ \E sections \in BakenFileInputs :
          /\ bakenFile' = sections
          /\ bakens' = import_baken_file(sections)
    /\ pc' = "imported"
    /\ UNCHANGED notFileVars

NextFile == ImportBakenFile

SpecFile == InitFile /\ [][NextFile]_vars

----------------------------------------------------------------------------
(* Claim about import_baken_file *)

\* A section with a latitude or with a locator of the pattern
Located(section) ==
    \/ ~section.latitude.none
    \/ ~section.locator.none /\ ValidLocatorMatch(section.locator.s)

\* C25: import_baken_file adds no entry and does not fail for any section
\* that has neither a latitude nor a valid locator (a section with no
\* locator option at all included), and adds every other section under
\* its section name; a file with no valid section yields an empty
\* collection.
C25_SkipsUnlocatedAddsTheRest ==
    pc = "imported" =>
        /\ bakens.exc = "none"
        /\ { e.name : e \in bakens.entries }
              = { bakenFile[i].name : i \in { j \in 1..Len(bakenFile) : Located(bakenFile[j]) } }

----------------------------------------------------------------------------
(* Cells.import_locations.  A file is the sequence of its rows as the CSV  *)
(* reader hands them over: eleven fields each, by name.  Of a field's text *)
(* the model keeps whether it is a value its parser reads, the marker \N   *)
(* of missing data, or other text its parser refuses; of the values it     *)
(* keeps the identifier, the latitude and the longitude.                   *)

field_names ==
    << "ident", "latitude", "longitude", "mcc", "mnc", "lac", "cellid",
       "crange", "samples", "created", "updated" >>

Row(ident, lat, lon, texts) ==
    [ident |-> ident, latitude |-> lat, longitude |-> lon, texts |-> texts]

\* int(), float() and strptime() raise ValueError for the marker and for
\* any other text that is not of their form
ParseRaises(row) == \E i \in 1..Len(field_names) : row.texts[i] # "value"

\* r"\N" in row.values()
HasMarker(row) == \E i \in 1..Len(field_names) : row.texts[i] = "marker"

\* self[row['ident']] = Cell(**cell)
Stored(entries, row, cell) ==
    { e \in entries : e.ident # row.ident } \cup { [ident |-> row.ident, cell |-> cell] }

\* The loop over the rows from the i-th on, the collection holding entries
RECURSIVE ImportRows(_, _, _)
ImportRows(rows, i, entries) ==
    IF i > Len(rows) THEN [exc |-> "none", entries |-> entries]
    ELSE IF ParseRaises(rows[i])
    THEN IF HasMarker(rows[i])
         THEN [exc |-> "none", entries |-> entries]               \* break
         ELSE [exc |-> "FileFormatError", entries |-> entries]
    ELSE LET made == CellInit(rows[i].ident, rows[i].latitude, rows[i].longitude)
         IN  IF made.exc # "none" THEN [exc |-> made.exc, entries |-> entries]
             ELSE ImportRows(rows, i + 1, Stored(entries, rows[i], made.self))

\* Cells().import_locations(cells_file)
import_locations(rows) == ImportRows(rows, 1, {})

----------------------------------------------------------------------------
(* The cells session: one file is imported into an empty Cells *)

\* Most rows of a file
MaxRows == 3

AllValues == [i \in 1..Len(field_names) |-> "value"]

\* What the fields of a row can be: all values; a date or a code missing;
\* a latitude or a count that is no number; both
RowTexts ==
    { AllValues,
      [AllValues EXCEPT ![10] = "marker"],
      [AllValues EXCEPT ![4] = "marker", ![11] = "marker"],
      [AllValues EXCEPT ![2] = "junk"],
      [AllValues EXCEPT ![9] = "junk"],
      [AllValues EXCEPT ![2] = "junk", ![10] = "marker"] }

\* The i-th row of a file: rows have identifiers of their own, and
\* positions along a meridian
RowAt(i, texts) ==
    Row(22746 + i, Number(Deg(52, 40 + i)), Number(-Deg(0, 225)), texts)

CellsFileInputs ==
    UNION { { [i \in 1..k |-> RowAt(i, f[i])] : f \in [1..k -> RowTexts] } :
              k \in 0..MaxRows }

InitCells == pc = "start" /\ LocInit /\ BakenIdle /\ DmsIdle /\ RestIdle

ImportLocations ==
    /\ pc = "start"
    /\ \E rows \in CellsFileInputs :
          /\ cellsFile' = rows
          /\ cells' = import_locations(rows)
    /\ pc' = "cellsread"
    /\ UNCHANGED notCellsVars

NextCells == ImportLocations

SpecCells == InitCells /\ [][NextCells]_vars

----------------------------------------------------------------------------
(* Claim about Cells.import_locations *)

\* A row with the marker of missing data in it
Incomplete(row) == \E i \in 1..11 : row.texts[i] = "marker"

\* A row all of whose fields are values
Complete(row) == \A i \in 1..11 : row.texts[i] = "value"

\* C26: Cells.import_locations ignores each incomplete row (a row with the
\* missing-data marker \N in it) and still imports every complete row of
\* the input, wherever the incomplete row stands in the file; a row that
\* is malformed without that marker fails with FileFormatError.
C26_SkipsIncompleteRowsOnly ==
    pc = "cellsread" =>
        IF \E j \in 1..Len(cellsFile) : ~Complete(cellsFile[j]) /\ ~Incomplete(cellsFile[j])
        THEN cells.exc = "FileFormatError"
        ELSE /\ cells.exc = "none"
             /\ { e.ident : e \in cells.entries }
                   = { cellsFile[j].ident : j \in { k \in 1..Len(cellsFile) : Complete(cellsFile[k]) } }


====
